---- MODULE Spec2Model ----
(***************************************************************************)
(* Model of spotify-youtube-playlist-porter: the `transfer` command        *)
(* (cli.ts), the per-playlist orchestrator (transfer.ts), the Spotify      *)
(* listing helpers (spotify.ts) and the YouTube calls (youtube.ts).        *)
(*                                                                         *)
(* The program is one async function running on a single thread.  Every    *)
(* action below is the code between two suspension points (awaits); the    *)
(* replies of the two remote services are the inputs, drawn with \E.       *)
(***************************************************************************)
EXTENDS Integers, Sequences, FiniteSets, TLC

\* ------------------------------------------------------------------ bounds
MaxPages == 2      \* pages a server splits one listing into
MaxItems == 2      \* entries of one listing, over all its pages
MaxHits == 2       \* items in one search response (the request asks for at most 5)
MaxIds == 2        \* ids given with --playlist, ticks submitted at the prompt
MaxRejects == 1    \* submissions the prompt refuses before it is answered
MaxRequests == 2   \* requests the callback server handles during one wait
MaxTime == 3       \* the clock runs from 1 to MaxTime

\* ------------------------------------------------------------- value sets
Null == "null"                       \* JS null / undefined
NoPlaylist == 0                      \* the null createYouTubePlaylist returns
Tracks == {"t1", "t2"}               \* playable tracks of the source catalog
PlaylistIds == {"p1", "p2"}          \* playlists of the source catalog
UnknownId == "zz"                    \* an id no source playlist has
Videos == {"v1", "v2"}               \* videos of the destination catalog

SeqsUpTo(S, n) == UNION {[1..m -> S] : m \in 0..n}

RECURSIVE SumLen(_)
SumLen(ps) == IF ps = <<>> THEN 0 ELSE Len(Head(ps)) + SumLen(Tail(ps))

\* The entries of a chain of pages, in the order the server holds them.
RECURSIVE Flatten(_)
Flatten(pages) == IF pages = <<>> THEN <<>> ELSE Head(pages) \o Flatten(Tail(pages))

\* A Spotify listing as the server holds it: a chain of pages, page j linking
\* to page j+1 and the last page carrying next = null.  failAt # 0 makes the
\* request for that page fail (HTTP error, network error).
Servers(S) ==
    {[pages |-> ps, failAt |-> f] :
        ps \in {q \in UNION {[1..n -> SeqsUpTo(S, MaxItems)] : n \in 1..MaxPages} :
                    SumLen(q) <= MaxItems},
        f \in 0..MaxPages}

TrackServers == {s \in Servers(Tracks \cup {Null}) : s.failAt <= Len(s.pages)}
PlaylistServers == {s \in Servers(PlaylistIds) : s.failAt <= Len(s.pages)}

\* ---------------------------------------------------------------- spotify.ts
\* A request URL: relative to the client's baseURL or absolute, naming a page.
\* NoUrl is the null cursor.
NoUrl == [abs |-> FALSE, page |-> 0]
RelUrl(j) == [abs |-> FALSE, page |-> j]
AbsUrl(j) == [abs |-> TRUE, page |-> j]

\* url.replace(client.defaults.baseURL, ""): the absolute cursor made relative.
StripBase(url) == [url EXCEPT !.abs = FALSE]

\* client.get(url): axios prefixes baseURL to a relative url and sends an
\* absolute one as it is; the server answers with the page the url names.
SpotifyGet(server, url) ==
    IF url.page = server.failAt
    THEN [ok |-> FALSE, items |-> <<>>, next |-> NoUrl]
    ELSE [ok |-> TRUE,
          items |-> server.pages[url.page],
          next |-> IF url.page < Len(server.pages) THEN AbsUrl(url.page + 1) ELSE NoUrl]

\* array.includes(id)
Includes(ids, id) == \E n \in 1..Len(ids) : ids[n] = id

\* Variant of PlaylistsLoop: a page's entries are appended only when the
\* result does not hold them yet.
RECURSIVE PlaylistsLoopDeduplicates(_, _, _, _)
PlaylistsLoopDeduplicates(server, url, playlists, requested) ==
    IF url = NoUrl
    THEN [ok |-> TRUE, items |-> playlists, requested |-> requested]
    ELSE LET response == SpotifyGet(server, url)
             next == response.next
         IN  IF ~response.ok
             THEN [ok |-> FALSE, items |-> <<>>, requested |-> Append(requested, url.page)]
             ELSE PlaylistsLoopDeduplicates(
                      server,
                      IF next # NoUrl THEN StripBase(next) ELSE NoUrl,
                      playlists \o SelectSeq(response.items,
                                             LAMBDA p : ~Includes(playlists, p)),
                      Append(requested, url.page))

\* Variant of PlaylistsLoop: a failed request ends the loop and the pages
\* fetched so far are returned.
RECURSIVE PlaylistsLoopKeepsPartial(_, _, _, _)
PlaylistsLoopKeepsPartial(server, url, playlists, requested) ==
    IF url = NoUrl
    THEN [ok |-> TRUE, items |-> playlists, requested |-> requested]
    ELSE LET response == SpotifyGet(server, url)
             next == response.next
         IN  IF ~response.ok
             THEN [ok |-> TRUE, items |-> playlists, requested |-> Append(requested, url.page)]
             ELSE PlaylistsLoopKeepsPartial(
                      server,
                      IF next # NoUrl THEN StripBase(next) ELSE NoUrl,
                      playlists \o response.items,
                      Append(requested, url.page))

\* The while (url) loop of getUserPlaylistsSpotify; a failed request throws.
RECURSIVE PlaylistsLoop(_, _, _, _)
PlaylistsLoop(server, url, playlists, requested) ==
    IF url = NoUrl
    THEN [ok |-> TRUE, items |-> playlists, requested |-> requested]
    ELSE LET response == SpotifyGet(server, url)
             next == response.next
         IN  IF ~response.ok
             THEN [ok |-> FALSE, items |-> <<>>, requested |-> Append(requested, url.page)]
             ELSE PlaylistsLoop(server,
                                IF next # NoUrl THEN StripBase(next) ELSE NoUrl,
                                playlists \o response.items,
                                Append(requested, url.page))

getUserPlaylistsSpotify(server) == PlaylistsLoop(server, RelUrl(1), <<>>, <<>>)

\* Variant of ValidItems: nothing is filtered out.
ValidItemsKeepsNull(items) == items

\* response.data.items.filter(item => item.track !== null)
ValidItems(items) == SelectSeq(items, LAMBDA item : item # Null)

\* Variant of TracksLoop: each page overwrites the result (tracks = validItems)
\* where the code appends to it.
RECURSIVE TracksLoopOverwrites(_, _, _, _)
TracksLoopOverwrites(server, url, tracks, requested) ==
    IF url = NoUrl
    THEN [ok |-> TRUE, items |-> tracks, requested |-> requested]
    ELSE LET response == SpotifyGet(server, url)
             next == response.next
         IN  IF ~response.ok
             THEN [ok |-> FALSE, items |-> <<>>, requested |-> Append(requested, url.page)]
             ELSE TracksLoopOverwrites(server,
                                       IF next # NoUrl THEN StripBase(next) ELSE NoUrl,
                                       ValidItems(response.items),
                                       Append(requested, url.page))

\* The while (url) loop of getPlaylistTracksSpotify; a failed request throws.
RECURSIVE TracksLoop(_, _, _, _)
TracksLoop(server, url, tracks, requested) ==
    IF url = NoUrl
    THEN [ok |-> TRUE, items |-> tracks, requested |-> requested]
    ELSE LET response == SpotifyGet(server, url)
             next == response.next
         IN  IF ~response.ok
             THEN [ok |-> FALSE, items |-> <<>>, requested |-> Append(requested, url.page)]
             ELSE TracksLoop(server,
                             IF next # NoUrl THEN StripBase(next) ELSE NoUrl,
                             tracks \o ValidItems(response.items),
                             Append(requested, url.page))

getPlaylistTracksSpotify(server) == TracksLoop(server, RelUrl(1), <<>>, <<>>)

NotReturned == [ok |-> FALSE, items |-> <<>>, requested |-> <<>>]

\* ---------------------------------------------------------------- youtube.ts
\* What one request through the YouTube client ends in.  "ok" is a 2xx
\* response; "httpError" an error response whose body carries
\* error.errors[0].reason (reason) and error.message (comments: the message
\* contains "video owner has disabled comments"); "networkError" an error
\* with no response; "tokenError" the Error thrown by the request interceptor
\* of createYouTubeClient when no access token can be had.
HttpError(reason, comments) ==
    [kind |-> "httpError", items |-> <<>>, reason |-> reason, comments |-> comments]
Failure(kind) == [kind |-> kind, items |-> <<>>, reason |-> Null, comments |-> FALSE]
OkReply(items) == [kind |-> "ok", items |-> items, reason |-> Null, comments |-> FALSE]
NoReply == Failure("none")

FailureReplies ==
    {Failure("networkError"), Failure("tokenError"),
     HttpError(Null, FALSE), HttpError("quotaExceeded", FALSE),
     HttpError("rateLimitExceeded", FALSE)}

SearchReplies == {OkReply(s) : s \in SeqsUpTo(Videos, MaxHits)} \cup FailureReplies

CreateReplies == {OkReply(<<>>)} \cup FailureReplies

DuplicateReplies == {HttpError("duplicate", FALSE), HttpError("playlistItemDuplicate", FALSE)}

AddReplies ==
    {OkReply(<<>>)} \cup DuplicateReplies \cup FailureReplies
        \cup {HttpError("forbidden", TRUE), HttpError("forbidden", FALSE)}

\* The value a call hands back to its caller: threw = TRUE when the call
\* rejects (an exception leaves it), else value is what it returns.
Returns(v) == [threw |-> FALSE, value |-> v]
Throws == [threw |-> TRUE, value |-> Null]

\* Variant of searchYouTubeVideo: the last item of the result is returned.
searchYouTubeVideoLastItem(reply) ==
    IF reply.kind = "ok"
    THEN IF Len(reply.items) > 0
         THEN Returns(reply.items[Len(reply.items)])
         ELSE Returns(Null)
    ELSE Returns(Null)

\* Variant of searchYouTubeVideo: the interceptor's token error is not caught.
searchYouTubeVideoTokenErrorThrows(reply) ==
    IF reply.kind = "ok"
    THEN IF Len(reply.items) > 0 THEN Returns(reply.items[1]) ELSE Returns(Null)
    ELSE IF reply.kind = "tokenError" THEN Throws
    ELSE Returns(Null)

\* Variant of searchYouTubeVideo: an error response is rethrown.
searchYouTubeVideoHttpErrorThrows(reply) ==
    IF reply.kind = "ok"
    THEN IF Len(reply.items) > 0 THEN Returns(reply.items[1]) ELSE Returns(Null)
    ELSE IF reply.kind = "httpError" THEN Throws
    ELSE Returns(Null)

\* searchYouTubeVideo: items[0] of a non-empty result; null on an empty
\* result and, from the catch block, on every error.
searchYouTubeVideo(reply) ==
    IF reply.kind = "ok"
    THEN IF Len(reply.items) > 0 THEN Returns(reply.items[1]) ELSE Returns(Null)
    ELSE Returns(Null)

\* Variant of createYouTubePlaylist: the id handed back is that of the
\* account's first playlist, not of the one just created.
createYouTubePlaylistReturnsFirst(reply, id) ==
    IF reply.kind = "ok" THEN Returns(1) ELSE Returns(NoPlaylist)

\* Variant of createYouTubePlaylist: the request error is rethrown.
createYouTubePlaylistThrows(reply, id) ==
    IF reply.kind = "ok" THEN [threw |-> FALSE, value |-> id]
    ELSE [threw |-> TRUE, value |-> NoPlaylist]

\* createYouTubePlaylist: response.data.id, or null from the catch block.
\* The server names the n-th playlist it creates "y<n>"; ids are modelled by n.
createYouTubePlaylist(reply, id) ==
    IF reply.kind = "ok" THEN [threw |-> FALSE, value |-> id]
    ELSE [threw |-> FALSE, value |-> NoPlaylist]

\* Variant of addVideoToYouTubePlaylist: a duplicate report is a failure.
addVideoDuplicateFails(reply) ==
    IF reply.kind = "ok" THEN Returns(TRUE)
    ELSE Returns(FALSE)

\* Variant of addVideoToYouTubePlaylist: the comments-disabled rejection is
\* rethrown.
addVideoForbiddenThrows(reply) ==
    IF reply.kind = "ok" THEN Returns(TRUE)
    ELSE IF reply.reason = "duplicate" \/ reply.reason = "playlistItemDuplicate"
         THEN Returns(TRUE)
    ELSE IF reply.reason = "forbidden" /\ reply.comments
         THEN [threw |-> TRUE, value |-> FALSE]
    ELSE Returns(FALSE)

\* addVideoToYouTubePlaylist: true on success and on a duplicate report,
\* false from the rest of the catch block.
addVideoToYouTubePlaylist(reply) ==
    IF reply.kind = "ok" THEN Returns(TRUE)
    ELSE IF reply.reason = "duplicate" \/ reply.reason = "playlistItemDuplicate"
         THEN Returns(TRUE)
    ELSE IF reply.reason = "forbidden" /\ reply.comments THEN Returns(FALSE)
    ELSE Returns(FALSE)

\* ------------------------------------------------------------------- state
VARIABLES
    pc,                  \* position of the transfer command's action (cli.ts)
    exitCode,            \* "none" while running, else how the process exited
    config,              \* the stored credentials the command reads
    allSpotifyPlaylists, \* result of getUserPlaylistsSpotify
    playlistsToTransfer, \* the selection handed to the transfer loop
    k,                   \* number of transferPlaylist calls started
    finished,            \* number of transferPlaylist calls that returned
    completeSignals,     \* times "All selected transfers complete!" was printed
    tpc,                 \* position of the running transferPlaylist call
    spotifyTracks, youtubePlaylistId, i,
    addedCount, notFoundCount, failedCount,
    youtubeVideo,        \* result of searchYouTubeVideo for track i
    searchReply,         \* the search response the call is resuming with
    addReply,            \* the add response the call is resuming with
    created,             \* playlists the destination has created so far
    creates, searches, adds, \* requests the running call has issued
    sent,                \* videos the running call has asked to add
    summary,             \* the summary lines the running call has printed
    spotifyPlaylist,     \* the source playlist the running call was given
    fetches,             \* track-listing calls the running call has made
    listed,              \* the entries the server returned for that listing
    progress,            \* the [i/total] lines the running call has printed
    addRequest,          \* the add request in flight
    pauses,              \* 300 ms pauses the running call has started
    createdFor,          \* createdFor[id]: the call that created playlist id
    lpc,                 \* a listing helper called on its own: "call", "returned"
    lcall,               \* which helper: "playlists" or "tracks"
    lserver,             \* the listing the server holds for that call
    lresult,             \* what the helper returned, with the pages it requested
    spc,                 \* the selection run on its own: "call", "returned"
    slisting,            \* the source listing the selection is given
    soptions,            \* the command line's --all and --playlist
    sanswers,            \* the ids ticked at the prompt, once it accepted them
    srejected,           \* submissions the prompt has refused
    sresult,             \* the selection made, the ids warned about, what follows
    wservice,            \* whose authorization is waited for: "spotify", "google"
    wstate,              \* the state value generated for this attempt (Spotify)
    wpromise,            \* the promise of the wait: status and value
    wlistening,          \* the callback server accepts connections
    wtimer,              \* the 60 s timer: "pending" or "fired"
    wfailed,             \* the server has emitted "error"
    wresponse,           \* status of the last HTTP response written, 0 if none
    wrequests,           \* requests the callback server has handled
    wlast,               \* the last event of the wait
    wcaller,             \* the caller of the wait: "awaiting", "exchange", "threw"
    wexchanged,          \* the code the token exchange was requested with
    store,               \* the config store: credentials, settings, tokens
    now,                 \* Date.now()
    arun,                \* the last command run against the store and its calls
    cpc,                 \* the configure command: "idle", "answered"
    answers              \* what the configure prompt returned

cliVars == <<pc, exitCode, config, allSpotifyPlaylists,
             playlistsToTransfer, k, finished, completeSignals>>
callVars == <<spotifyTracks, youtubePlaylistId, i, addedCount, notFoundCount,
              failedCount, youtubeVideo, searchReply, addReply, creates,
              searches, adds, sent, summary, spotifyPlaylist, fetches,
              listed, progress, addRequest, pauses>>
listingVars == <<lpc, lcall, lserver, lresult>>
selectVars == <<spc, slisting, soptions, sanswers, srejected, sresult>>
waitVars == <<wservice, wstate, wpromise, wlistening, wtimer, wfailed,
              wresponse, wrequests, wlast, wcaller, wexchanged>>
authVars == <<store, now, arun>>
configureVars == <<cpc, answers>>
sideVars == <<waitVars, authVars, configureVars>>
vars == <<cliVars, tpc, callVars, created, createdFor, listingVars, selectVars,
          sideVars>>

Credentials == [spotifyClientId : {Null, "id"}, googleClientId : {Null, "id"}]

\* --all wins over --playlist; no usable flag means the interactive prompt.
OptionSets ==
    {[all |-> TRUE, playlist |-> <<>>], [all |-> TRUE, playlist |-> <<"p1">>]}
        \cup {[all |-> FALSE, playlist |-> ids] :
                ids \in SeqsUpTo(PlaylistIds \cup {UnknownId}, MaxIds)}

Terminal == {"done", "skipped", "failed"}

NotSelected == [selection |-> <<>>, notFoundIds |-> <<>>, next |-> "none"]

\* No add request is in flight.
NoRequest == [playlistId |-> NoPlaylist, videoId |-> Null]

\* config.ts: the store.  A key that is not set holds Null (NoToken,
\* NoCredentials for the two tokens); the redirect URIs, the scopes and the
\* port have schema defaults and are always there.
NoToken == [access_token |-> Null, refresh_token |-> Null, expires_at |-> 0]
NoCredentials == [access_token |-> Null, refresh_token |-> Null, expiry_date |-> 0]

EmptyStore ==
    [spotifyClientId |-> Null, spotifyClientSecret |-> Null,
     googleClientId |-> Null, googleClientSecret |-> Null,
     callbackPort |-> 8888,
     spotifyToken |-> NoToken, googleToken |-> NoCredentials]

\* The last command run (op), the one before it (after), how it went on
\* (exit), and what its calls of the token functions did and returned.
\* What one call of getSpotifyToken / getYouTubeToken did.
NotCalled ==
    [called |-> FALSE, threw |-> FALSE, reused |-> FALSE,
     refreshes |-> 0, flows |-> 0, exchanges |-> 0]
NoRun == [op |-> "none", after |-> "none", exit |-> "none",
          spotify |-> NotCalled, spotifyToken |-> NoToken,
          google |-> NotCalled, googleToken |-> NoCredentials]

\* The configure prompt has not been answered.
NoAnswers ==
    [spotifyClientId |-> Null, spotifyClientSecret |-> Null,
     spotifyRedirectUri |-> Null,
     googleClientId |-> Null, googleClientSecret |-> Null,
     googleRedirectUri |-> Null, callbackPort |-> 0]

\* An event of the authorization wait: a request to the callback server
\* with its path and query, the server's "error" event, or the timer.
Event(kind, req) == [kind |-> kind, req |-> req]
NoRequestYet == [path |-> Null, error |-> Null, code |-> Null, state |-> Null]
NoEvent == Event("none", NoRequestYet)

Pending == [status |-> "pending", value |-> Null]

\* No authorization wait is under way.
WaitUnused ==
    /\ wservice = "none"
    /\ wstate = Null
    /\ wpromise = Pending
    /\ wlistening = FALSE
    /\ wtimer = "none"
    /\ wfailed = FALSE
    /\ wresponse = 0
    /\ wrequests = 0
    /\ wlast = NoEvent
    /\ wcaller = "none"
    /\ wexchanged = Null
    /\ store = EmptyStore
    /\ now = 1
    /\ arun = NoRun
    /\ cpc = "unused"
    /\ answers = NoAnswers

\* The locals of a transferPlaylist call before it has assigned them.
FreshCall ==
    /\ spotifyTracks = <<>>
    /\ youtubePlaylistId = NoPlaylist
    /\ i = 1
    /\ addedCount = 0 /\ notFoundCount = 0 /\ failedCount = 0
    /\ youtubeVideo = Null
    /\ searchReply = NoReply /\ addReply = NoReply
    /\ creates = 0 /\ searches = 0 /\ adds = 0
    /\ sent = {}
    /\ summary = {}
    /\ spotifyPlaylist = Null
    /\ fetches = 0
    /\ listed = <<>>
    /\ progress = <<>>
    /\ addRequest = NoRequest
    /\ pauses = 0

\* A new transferPlaylist call gets fresh locals.
NewCall ==
    /\ spotifyTracks' = <<>>
    /\ youtubePlaylistId' = NoPlaylist
    /\ i' = 1
    /\ addedCount' = 0 /\ notFoundCount' = 0 /\ failedCount' = 0
    /\ youtubeVideo' = Null
    /\ searchReply' = NoReply /\ addReply' = NoReply
    /\ creates' = 0 /\ searches' = 0 /\ adds' = 0
    /\ sent' = {}
    /\ summary' = {}
    /\ listed' = <<>>
    /\ progress' = <<>>
    /\ addRequest' = NoRequest
    /\ pauses' = 0

Init ==
    /\ pc = "start"
    /\ exitCode = "none"
    /\ config \in Credentials
    /\ allSpotifyPlaylists = <<>>
    /\ playlistsToTransfer = <<>>
    /\ k = 0
    /\ finished = 0
    /\ completeSignals = 0
    /\ tpc = "idle"
    /\ created = 0
    /\ createdFor = <<>>
    /\ FreshCall
    /\ lpc = "unused"
    /\ lcall = "none"
    /\ lserver = [pages |-> <<>>, failAt |-> 0]
    /\ lresult = NotReturned
    /\ spc = "unused"
    /\ slisting = <<>>
    /\ soptions = [all |-> FALSE, playlist |-> <<>>]
    /\ sanswers = <<>>
    /\ srejected = 0
    /\ sresult = NotSelected
    /\ WaitUnused

\* ----------------------------------------------------- cli.ts: transfer command
\* process.exit(code), or the action returning with nothing left to run.
Exit(code) ==
    /\ pc' = "exited"
    /\ exitCode' = code

\* Lines 151-155: both client ids must be configured.
CheckCredentials ==
    /\ pc = "start"
    /\ IF config.spotifyClientId = Null \/ config.googleClientId = Null
       THEN Exit("nonzero")
       ELSE pc' = "auth" /\ exitCode' = exitCode
    /\ UNCHANGED <<config, allSpotifyPlaylists, playlistsToTransfer, k,
                   finished, completeSignals, tpc, callVars, created, createdFor>>
    /\ UNCHANGED <<listingVars, selectVars, sideVars>>

\* Lines 162-182: getSpotifyToken, then getYouTubeToken; either one throwing
\* is caught and ends the process with code 1.
Authenticate ==
    /\ pc = "auth"
    /\ \E spotifyOk \in BOOLEAN, youtubeOk \in BOOLEAN :
          IF spotifyOk /\ youtubeOk
          THEN pc' = "userdata" /\ exitCode' = exitCode
          ELSE Exit("nonzero")
    /\ UNCHANGED <<config, allSpotifyPlaylists, playlistsToTransfer, k,
                   finished, completeSignals, tpc, callVars, created, createdFor>>
    /\ UNCHANGED <<listingVars, selectVars, sideVars>>

\* Lines 184-208: getCurrentUserSpotify and getUserPlaylistsSpotify; a throw
\* of either is caught and ends the process with code 1; an empty listing
\* returns from the action.
FetchUserData ==
    /\ pc = "userdata"
    /\ \E userOk \in BOOLEAN, server \in PlaylistServers :
          LET listing == getUserPlaylistsSpotify(server) IN
          IF ~userOk \/ ~listing.ok
          THEN Exit("nonzero") /\ allSpotifyPlaylists' = allSpotifyPlaylists
          ELSE /\ allSpotifyPlaylists' = listing.items
               /\ IF Len(listing.items) = 0
                  THEN Exit("zero")
                  ELSE pc' = "select" /\ exitCode' = exitCode
    /\ UNCHANGED <<config, playlistsToTransfer, k, finished,
                   completeSignals, tpc, callVars, created, createdFor>>
    /\ UNCHANGED <<listingVars, selectVars, sideVars>>

\* Variant of FilterByIds: the requested ids are mapped to the listed
\* playlist of that id, in the order requested.
FilterByIdsInRequestOrder(playlists, ids) ==
    SelectSeq(ids, LAMBDA id : Includes(playlists, id))

\* allSpotifyPlaylists.filter(p => ids.includes(p.id))
FilterByIds(playlists, ids) == SelectSeq(playlists, LAMBDA p : Includes(ids, p))

\* Variant of validate: any submission is accepted.
validateAcceptsAny(input) == TRUE

\* Lines 252-253: validate of the checkbox prompt; a submission it refuses
\* shows "Please select at least one playlist." and the prompt stays open.
validate(input) == Len(input) > 0

\* What can be submitted at the checkbox prompt: ticks among the offered ids.
PromptInputs(playlists) ==
    SeqsUpTo({playlists[n] : n \in 1..Len(playlists)}, MaxIds)

\* What the checkbox prompt can answer: a submission validate accepts.
PromptAnswers(playlists) == {ids \in PromptInputs(playlists) : validate(ids)}

\* Lines 210-262: the selection.  --all takes the whole listing, --playlist
\* the listed playlists whose id was given, and with neither flag the
\* playlists ticked at the prompt.
Select(playlists, options, selectedIds) ==
    IF options.all THEN playlists
    ELSE IF Len(options.playlist) > 0 THEN FilterByIds(playlists, options.playlist)
    ELSE FilterByIds(playlists, selectedIds)

\* playlistsToTransfer.some(p => p.id === id)
Some(playlists, id) == \E n \in 1..Len(playlists) : playlists[n] = id

\* Variant of NotFoundIds: the test is not negated.
NotFoundIdsReportsFound(playlists, options) ==
    IF ~options.all /\ Len(options.playlist) > 0
    THEN SelectSeq(options.playlist,
                   LAMBDA id : Some(FilterByIds(playlists, options.playlist), id))
    ELSE <<>>

\* Lines 226-241: with --playlist, the requested ids that no selected
\* playlist has; the warning lists them when there are any.
NotFoundIds(playlists, options) ==
    IF ~options.all /\ Len(options.playlist) > 0
    THEN SelectSeq(options.playlist,
                   LAMBDA id : ~Some(FilterByIds(playlists, options.playlist), id))
    ELSE <<>>

\* Lines 264-277: an empty selection returns from the action, any other
\* enters the transfer loop.
AfterSelection(selection) == IF Len(selection) = 0 THEN "exited" ELSE "loop"

\* Lines 210-273: the command line is read, the prompt (if any) answers,
\* and an empty selection returns from the action.
SelectPlaylists ==
    /\ pc = "select"
    /\ \E options \in OptionSets, selectedIds \in PromptAnswers(allSpotifyPlaylists) :
          /\ playlistsToTransfer' = Select(allSpotifyPlaylists, options, selectedIds)
          /\ IF AfterSelection(playlistsToTransfer') = "exited"
             THEN Exit("zero")
             ELSE pc' = "loop" /\ exitCode' = exitCode
    /\ UNCHANGED <<config, allSpotifyPlaylists, k, finished,
                   completeSignals, tpc, callVars, created, createdFor>>
    /\ UNCHANGED <<listingVars, selectVars, sideVars>>

\* Variant of StartTransfer: the call is not awaited, the next playlist
\* starts while the previous one is still under way.
StartTransferNotAwaited ==
    /\ pc = "loop"
    /\ k < Len(playlistsToTransfer)
    /\ k' = k + 1
    /\ tpc' = "fetch"
    /\ NewCall
    /\ spotifyPlaylist' = playlistsToTransfer[k']
    /\ fetches' = 1
    /\ UNCHANGED <<pc, exitCode, config, allSpotifyPlaylists,
                   playlistsToTransfer, finished, completeSignals, created, createdFor>>
    /\ UNCHANGED <<listingVars, selectVars, sideVars>>

\* Lines 275-277: the next iteration of the for-of loop calls transferPlaylist,
\* which runs up to its first await, the track listing (transfer.ts 19-28).
StartTransfer ==
    /\ pc = "loop"
    /\ tpc \in Terminal \cup {"idle"}
    /\ k < Len(playlistsToTransfer)
    /\ k' = k + 1
    /\ tpc' = "fetch"
    /\ NewCall
    /\ spotifyPlaylist' = playlistsToTransfer[k']
    /\ fetches' = 1
    /\ UNCHANGED <<pc, exitCode, config, allSpotifyPlaylists,
                   playlistsToTransfer, finished, completeSignals, created, createdFor>>
    /\ UNCHANGED <<listingVars, selectVars, sideVars>>

\* Line 279: the loop is over; the action returns and the process ends.
AllComplete ==
    /\ pc = "loop"
    /\ tpc \in Terminal \cup {"idle"}
    /\ k = Len(playlistsToTransfer)
    /\ completeSignals' = completeSignals + 1
    /\ Exit("zero")
    /\ UNCHANGED <<config, allSpotifyPlaylists, playlistsToTransfer, k,
                   finished, tpc, callVars, created, createdFor>>
    /\ UNCHANGED <<listingVars, selectVars, sideVars>>

\* An exception nothing catches: transferPlaylist rejects, the action's
\* promise rejects, and node (>= 18, package.json engines) ends the process
\* with code 1 on the unhandled rejection.
Uncaught ==
    /\ tpc' = "threw"
    /\ Exit("nonzero")

\* ------------------------------------------------- transfer.ts: transferPlaylist
\* Variant of searchLog: the position printed is the loop index, from 0.
searchLogZeroBased(tracks, j) ==
    [position |-> j - 1, total |-> Len(tracks), track |-> tracks[j]]

\* Lines 69-71: the `[i+1/total] "name" by artists` head of the line printed
\* for the track at the j-th place of the listing (j counts from 1).
searchLog(tracks, j) ==
    [position |-> j, total |-> Len(tracks), track |-> tracks[j]]

\* The for loop's header and its `if (!item?.track) continue`: the first
\* index from j on that holds a track, or Len + 1 when the loop is over.
RECURSIVE NextTrack(_, _)
NextTrack(tracks, j) ==
    IF j > Len(tracks) THEN j
    ELSE IF tracks[j] = Null THEN NextTrack(tracks, j + 1)
    ELSE j

\* Variant of LoopFrom: the pause is taken before the first track only.
LoopFromPausesOnce(j) ==
    /\ i' = NextTrack(spotifyTracks, j)
    /\ tpc' = IF i' > Len(spotifyTracks) THEN "report" ELSE "pause"
    /\ pauses' = IF i' > Len(spotifyTracks) \/ j > 1 THEN pauses ELSE pauses + 1

\* Control reaches the loop header with index j: either the next track's
\* 300 ms pause starts, or the loop ends and the summary is due.
LoopFrom(j) ==
    /\ i' = NextTrack(spotifyTracks, j)
    /\ tpc' = IF i' > Len(spotifyTracks) THEN "report" ELSE "pause"
    /\ pauses' = IF i' > Len(spotifyTracks) THEN pauses ELSE pauses + 1

\* transferPlaylist returns to the for-of loop of the command.
ReturnAs(state) ==
    /\ tpc' = state
    /\ finished' = finished + 1

\* Variant of FetchTracks: no empty-listing return, the playlist is created
\* whatever the listing holds.
FetchTracksNoEmptyCheck ==
    /\ pc = "loop" /\ tpc = "fetch"
    /\ \E server \in TrackServers :
          LET listing == getPlaylistTracksSpotify(server) IN
          IF ~listing.ok
          THEN /\ Uncaught
               /\ UNCHANGED <<spotifyTracks, creates, finished, listed>>
          ELSE /\ spotifyTracks' = listing.items
               /\ listed' = Flatten(server.pages)
               /\ tpc' = "create" /\ creates' = creates + 1
               /\ UNCHANGED <<pc, exitCode, finished>>
    /\ UNCHANGED <<config, allSpotifyPlaylists, playlistsToTransfer, k,
                   completeSignals, youtubePlaylistId, i, pauses, addedCount,
                   notFoundCount, failedCount, youtubeVideo, searchReply,
                   addReply, searches, adds, sent, summary, created, createdFor,
                   spotifyPlaylist, fetches, progress, addRequest>>
    /\ UNCHANGED <<listingVars, selectVars, sideVars>>

\* Lines 25-37: the track listing answers.  A throw of
\* getPlaylistTracksSpotify is caught nowhere; an empty listing returns.
FetchTracks ==
    /\ pc = "loop" /\ tpc = "fetch"
    /\ \E server \in TrackServers :
          LET listing == getPlaylistTracksSpotify(server) IN
          IF ~listing.ok
          THEN /\ Uncaught
               /\ UNCHANGED <<spotifyTracks, creates, finished, listed>>
          ELSE /\ spotifyTracks' = listing.items
               /\ listed' = Flatten(server.pages)
               /\ IF Len(listing.items) = 0
                  THEN ReturnAs("skipped") /\ creates' = creates
                  ELSE tpc' = "create" /\ creates' = creates + 1
                          /\ finished' = finished
               /\ UNCHANGED <<pc, exitCode>>
    /\ UNCHANGED <<config, allSpotifyPlaylists, playlistsToTransfer, k,
                   completeSignals, youtubePlaylistId, i, pauses, addedCount,
                   notFoundCount, failedCount, youtubeVideo, searchReply,
                   addReply, searches, adds, sent, summary, created, createdFor,
                   spotifyPlaylist, fetches, progress, addRequest>>
    /\ UNCHANGED <<listingVars, selectVars, sideVars>>

\* Lines 43-63: the playlist creation answers.  null returns; an id starts
\* the track loop with the three counters at zero.
CreatePlaylist ==
    /\ pc = "loop" /\ tpc = "create"
    /\ \E reply \in CreateReplies :
          LET result == createYouTubePlaylist(reply, created + 1) IN
          /\ created' = IF reply.kind = "ok" THEN created + 1 ELSE created
          /\ createdFor' = IF reply.kind = "ok" THEN Append(createdFor, k)
                            ELSE createdFor
          /\ IF result.threw
             THEN Uncaught /\ UNCHANGED <<youtubePlaylistId, i, pauses, finished>>
             ELSE /\ youtubePlaylistId' = result.value
                  /\ UNCHANGED <<pc, exitCode>>
                  /\ IF result.value = NoPlaylist
                     THEN ReturnAs("failed") /\ i' = i /\ pauses' = pauses
                     ELSE LoopFrom(1) /\ finished' = finished
    /\ addedCount' = 0 /\ notFoundCount' = 0 /\ failedCount' = 0
    /\ UNCHANGED <<config, allSpotifyPlaylists, playlistsToTransfer, k,
                   completeSignals, spotifyTracks, youtubeVideo, searchReply,
                   addReply, creates, searches, adds, sent, summary,
                   spotifyPlaylist, fetches, listed, progress, addRequest>>
    /\ UNCHANGED <<listingVars, selectVars, sideVars>>

\* Lines 73-79: the pause is over and the search request for track i goes out.
Pause ==
    /\ pc = "loop" /\ tpc = "pause"
    /\ tpc' = "search"
    /\ searches' = searches + 1
    /\ UNCHANGED <<cliVars, spotifyTracks, youtubePlaylistId, i, pauses, addedCount,
                   notFoundCount, failedCount, youtubeVideo, searchReply,
                   addReply, creates, adds, sent, summary, created, createdFor,
                   spotifyPlaylist, fetches, listed, progress, addRequest>>
    /\ UNCHANGED <<listingVars, selectVars, sideVars>>

\* The destination answers the search request.
SearchReply ==
    /\ pc = "loop" /\ tpc = "search"
    /\ \E reply \in SearchReplies : searchReply' = reply
    /\ tpc' = "searched"
    /\ UNCHANGED <<cliVars, spotifyTracks, youtubePlaylistId, i, pauses, addedCount,
                   notFoundCount, failedCount, youtubeVideo, addReply, creates,
                   searches, adds, sent, summary, created, createdFor, spotifyPlaylist,
                   fetches, listed, progress, addRequest>>
    /\ UNCHANGED <<listingVars, selectVars, sideVars>>

\* Lines 75-86 and 100-104: searchYouTubeVideo returns; a video with an id is
\* sent to the playlist, anything else counts the track as not found.
SearchReturn ==
    /\ pc = "loop" /\ tpc = "searched"
    /\ LET result == searchYouTubeVideo(searchReply) IN
       IF result.threw
       THEN /\ Uncaught
            /\ UNCHANGED <<youtubeVideo, adds, sent, notFoundCount, i, pauses,
                           finished, progress, addRequest>>
       ELSE /\ youtubeVideo' = result.value
            /\ UNCHANGED <<pc, exitCode, finished>>
            /\ IF result.value # Null
               THEN /\ tpc' = "add"
                    /\ adds' = adds + 1
                    /\ sent' = sent \cup {result.value}
                    /\ addRequest' = [playlistId |-> youtubePlaylistId,
                                      videoId |-> result.value]
                    /\ UNCHANGED <<notFoundCount, i, pauses, progress>>
               ELSE /\ notFoundCount' = notFoundCount + 1
                    /\ progress' = Append(progress, searchLog(spotifyTracks, i))
                    /\ LoopFrom(i + 1)
                    /\ UNCHANGED <<adds, sent, addRequest>>
    /\ searchReply' = NoReply
    /\ UNCHANGED <<config, allSpotifyPlaylists, playlistsToTransfer, k,
                   completeSignals, spotifyTracks, youtubePlaylistId,
                   addedCount, failedCount, addReply, creates, searches,
                   summary, created, createdFor, spotifyPlaylist, fetches, listed>>
    /\ UNCHANGED <<listingVars, selectVars, sideVars>>

\* The destination answers the add request.
AddReply ==
    /\ pc = "loop" /\ tpc = "add"
    /\ \E reply \in AddReplies : addReply' = reply
    /\ tpc' = "added"
    /\ UNCHANGED <<cliVars, spotifyTracks, youtubePlaylistId, i, pauses, addedCount,
                   notFoundCount, failedCount, youtubeVideo, searchReply,
                   creates, searches, adds, sent, summary, created, createdFor,
                   spotifyPlaylist, fetches, listed, progress, addRequest>>
    /\ UNCHANGED <<listingVars, selectVars, sideVars>>

\* Variant of AddReturn: the failure branch also counts the track as not
\* found.
AddReturnCountsTwice ==
    /\ pc = "loop" /\ tpc = "added"
    /\ LET result == addVideoToYouTubePlaylist(addReply) IN
       IF result.threw
       THEN /\ Uncaught
            /\ UNCHANGED <<addedCount, failedCount, notFoundCount, i, pauses,
                           youtubeVideo, finished, progress>>
       ELSE /\ IF result.value
               THEN /\ addedCount' = addedCount + 1
                    /\ UNCHANGED <<failedCount, notFoundCount>>
               ELSE /\ failedCount' = failedCount + 1
                    /\ notFoundCount' = notFoundCount + 1
                    /\ addedCount' = addedCount
            /\ youtubeVideo' = Null
            /\ progress' = Append(progress, searchLog(spotifyTracks, i))
            /\ LoopFrom(i + 1)
            /\ UNCHANGED <<pc, exitCode, finished>>
    /\ addReply' = NoReply
    /\ addRequest' = NoRequest
    /\ UNCHANGED <<config, allSpotifyPlaylists, playlistsToTransfer, k,
                   completeSignals, spotifyTracks, youtubePlaylistId,
                   searchReply, creates, searches, adds, sent, summary, created, createdFor,
                   spotifyPlaylist, fetches, listed>>
    /\ UNCHANGED <<listingVars, selectVars, sideVars>>

\* Variant of AddReturn: an add that returned false is sent again.
AddReturnRetries ==
    /\ pc = "loop" /\ tpc = "added"
    /\ LET result == addVideoToYouTubePlaylist(addReply) IN
       IF result.threw
       THEN /\ Uncaught
            /\ UNCHANGED <<addedCount, failedCount, i, pauses, youtubeVideo,
                           finished, progress, adds, addRequest>>
       ELSE IF result.value
       THEN /\ addedCount' = addedCount + 1 /\ failedCount' = failedCount
            /\ youtubeVideo' = Null
            /\ progress' = Append(progress, searchLog(spotifyTracks, i))
            /\ LoopFrom(i + 1)
            /\ addRequest' = NoRequest
            /\ UNCHANGED <<pc, exitCode, finished, adds>>
       ELSE /\ tpc' = "add"
            /\ adds' = adds + 1
            /\ UNCHANGED <<pc, exitCode, finished, addedCount, failedCount,
                           i, pauses, youtubeVideo, progress, addRequest>>
    /\ addReply' = NoReply
    /\ UNCHANGED <<config, allSpotifyPlaylists, playlistsToTransfer, k,
                   completeSignals, spotifyTracks, youtubePlaylistId,
                   notFoundCount, searchReply, creates, searches, sent,
                   summary, created, createdFor, spotifyPlaylist, fetches, listed>>
    /\ UNCHANGED <<listingVars, selectVars, sideVars>>

\* Lines 82-99: addVideoToYouTubePlaylist returns; true counts the track as
\* added, false as failed.
AddReturn ==
    /\ pc = "loop" /\ tpc = "added"
    /\ LET result == addVideoToYouTubePlaylist(addReply) IN
       IF result.threw
       THEN /\ Uncaught
            /\ UNCHANGED <<addedCount, failedCount, i, pauses, youtubeVideo,
                           finished, progress>>
       ELSE /\ IF result.value
               THEN addedCount' = addedCount + 1 /\ failedCount' = failedCount
               ELSE failedCount' = failedCount + 1 /\ addedCount' = addedCount
            /\ youtubeVideo' = Null
            /\ progress' = Append(progress, searchLog(spotifyTracks, i))
            /\ LoopFrom(i + 1)
            /\ UNCHANGED <<pc, exitCode, finished>>
    /\ addReply' = NoReply
    /\ addRequest' = NoRequest
    /\ UNCHANGED <<config, allSpotifyPlaylists, playlistsToTransfer, k,
                   completeSignals, spotifyTracks, youtubePlaylistId,
                   notFoundCount, searchReply, creates, searches, adds, sent,
                   summary, created, createdFor, spotifyPlaylist, fetches, listed>>
    /\ UNCHANGED <<listingVars, selectVars, sideVars>>

\* Lines 106-121: the summary of the playlist, then the call returns.
Report ==
    /\ pc = "loop" /\ tpc = "report"
    /\ summary' = summary \cup
          {[added |-> addedCount, notFound |-> notFoundCount,
            failed |-> failedCount, playlist |-> youtubePlaylistId]}
    /\ ReturnAs("done")
    /\ UNCHANGED <<pc, exitCode, config, allSpotifyPlaylists,
                   playlistsToTransfer, k, completeSignals, spotifyTracks,
                   youtubePlaylistId, i, pauses, addedCount, notFoundCount,
                   failedCount, youtubeVideo, searchReply, addReply, creates,
                   searches, adds, sent, created, createdFor, spotifyPlaylist, fetches,
                   listed, progress, addRequest>>
    /\ UNCHANGED <<listingVars, selectVars, sideVars>>

Next ==
    \/ CheckCredentials
    \/ Authenticate
    \/ FetchUserData
    \/ SelectPlaylists
    \/ StartTransfer
    \/ AllComplete
    \/ FetchTracks
    \/ CreatePlaylist
    \/ Pause
    \/ SearchReply
    \/ SearchReturn
    \/ AddReply
    \/ AddReturn
    \/ Report

Spec == Init /\ [][Next]_vars

\* ------------------------------------------- the listing helpers on their own
\* One call of getUserPlaylistsSpotify or getPlaylistTracksSpotify against a
\* listing the server holds, keeping what the call returned and requested.
InitListing ==
    /\ pc = "exited"
    /\ exitCode = "none"
    /\ config = [spotifyClientId |-> "id", googleClientId |-> "id"]
    /\ allSpotifyPlaylists = <<>>
    /\ playlistsToTransfer = <<>>
    /\ k = 0
    /\ finished = 0
    /\ completeSignals = 0
    /\ tpc = "idle"
    /\ created = 0
    /\ createdFor = <<>>
    /\ FreshCall
    /\ lpc = "call"
    /\ \/ lcall = "playlists" /\ lserver \in PlaylistServers
       \/ lcall = "tracks" /\ lserver \in TrackServers
    /\ lresult = NotReturned
    /\ spc = "unused"
    /\ slisting = <<>>
    /\ soptions = [all |-> FALSE, playlist |-> <<>>]
    /\ sanswers = <<>>
    /\ srejected = 0
    /\ sresult = NotSelected
    /\ WaitUnused

ListPlaylists ==
    /\ lpc = "call" /\ lcall = "playlists"
    /\ lresult' = getUserPlaylistsSpotify(lserver)
    /\ lpc' = "returned"
    /\ UNCHANGED <<cliVars, tpc, callVars, created, createdFor, lcall, lserver, selectVars, sideVars>>

ListTracks ==
    /\ lpc = "call" /\ lcall = "tracks"
    /\ lresult' = getPlaylistTracksSpotify(lserver)
    /\ lpc' = "returned"
    /\ UNCHANGED <<cliVars, tpc, callVars, created, createdFor, lcall, lserver, selectVars, sideVars>>

NextListing == ListPlaylists \/ ListTracks

SpecListing == InitListing /\ [][NextListing]_vars

\* ------------------------------------------------- the selection on its own
\* Lines 210-273 of the command against a non-empty source listing (an empty
\* one returns at line 205), keeping the selection, the ids the warning
\* lists and whether the transfer loop follows.
InitSelect ==
    /\ pc = "exited"
    /\ exitCode = "none"
    /\ config = [spotifyClientId |-> "id", googleClientId |-> "id"]
    /\ allSpotifyPlaylists = <<>>
    /\ playlistsToTransfer = <<>>
    /\ k = 0
    /\ finished = 0
    /\ completeSignals = 0
    /\ tpc = "idle"
    /\ created = 0
    /\ createdFor = <<>>
    /\ FreshCall
    /\ lpc = "unused"
    /\ lcall = "none"
    /\ lserver = [pages |-> <<>>, failAt |-> 0]
    /\ lresult = NotReturned
    /\ spc = "call"
    /\ slisting \in {l \in SeqsUpTo(PlaylistIds, MaxItems) : Len(l) > 0}
    /\ soptions \in OptionSets
    /\ sanswers = <<>>
    /\ srejected = 0
    /\ sresult = NotSelected
    /\ WaitUnused

\* The command line asks for the prompt: neither --all nor --playlist ids.
Interactive(options) == ~options.all /\ Len(options.playlist) = 0

\* Lines 247-258: a submission at the prompt; the prompt resolves with it
\* when validate accepts it and stays open otherwise.
PromptSubmit ==
    /\ spc = "call" /\ Interactive(soptions)
    /\ \E input \in PromptInputs(slisting) :
          IF validate(input)
          THEN /\ sanswers' = input
               /\ spc' = "answered"
               /\ srejected' = srejected
          ELSE /\ srejected < MaxRejects
               /\ srejected' = srejected + 1
               /\ UNCHANGED <<spc, sanswers>>
    /\ UNCHANGED <<cliVars, tpc, callVars, created, createdFor, listingVars, sideVars,
                   slisting, soptions, sresult>>

SelectOnly ==
    /\ \/ spc = "call" /\ ~Interactive(soptions)
       \/ spc = "answered"
    /\ LET selection == Select(slisting, soptions, sanswers) IN
       sresult' = [selection |-> selection,
                   notFoundIds |-> NotFoundIds(slisting, soptions),
                   next |-> AfterSelection(selection)]
    /\ spc' = "returned"
    /\ UNCHANGED <<cliVars, tpc, callVars, created, createdFor, listingVars, sideVars,
                   slisting, soptions, sanswers, srejected>>

NextSelect == PromptSubmit \/ SelectOnly

SpecSelect == InitSelect /\ [][NextSelect]_vars

\* ------------------------------------- the authorization wait on its own
\* spotify.ts 58-108 and 238-239, youtube.ts 57-104 and 144-146: the promise
\* getSpotifyAuthorizationCode / getYouTubeAuthorizationCode returns, the
\* callback server, the 60 s timer, and the caller that awaits the promise
\* and requests the token exchange with the code.
States == {"s1", "s2"}               \* values of the state parameter
Codes == {"c1", "c2"}                \* authorization codes
RedirectPath == "/callback"          \* pathname of the configured redirect URI

\* The requests a browser (or anyone on localhost) can send.
Requests ==
    [path : {RedirectPath, "/favicon.ico"}, error : {Null, "access_denied"},
     code : Codes \cup {Null}, state : States \cup {Null}]

InitWait ==
    /\ pc = "exited"
    /\ exitCode = "none"
    /\ config = [spotifyClientId |-> "id", googleClientId |-> "id"]
    /\ allSpotifyPlaylists = <<>>
    /\ playlistsToTransfer = <<>>
    /\ k = 0
    /\ finished = 0
    /\ completeSignals = 0
    /\ tpc = "idle"
    /\ created = 0
    /\ createdFor = <<>>
    /\ FreshCall
    /\ lpc = "unused"
    /\ lcall = "none"
    /\ lserver = [pages |-> <<>>, failAt |-> 0]
    /\ lresult = NotReturned
    /\ spc = "unused"
    /\ slisting = <<>>
    /\ soptions = [all |-> FALSE, playlist |-> <<>>]
    /\ sanswers = <<>>
    /\ srejected = 0
    /\ sresult = NotSelected
    /\ \/ wservice = "spotify" /\ wstate \in States
       \/ wservice = "google" /\ wstate = Null
    /\ wpromise = Pending
    /\ wlistening = TRUE
    /\ wtimer = "pending"
    /\ wfailed = FALSE
    /\ wresponse = 0
    /\ wrequests = 0
    /\ wlast = NoEvent
    /\ wcaller = "awaiting"
    /\ wexchanged = Null
    /\ store = EmptyStore
    /\ now = 1
    /\ arun = NoRun
    /\ cpc = "unused"
    /\ answers = NoAnswers

\* Variant of Settle: a later resolve or reject replaces the result.
SettleOverrides(promise, status, value) == [status |-> status, value |-> value]

\* resolve(value) / reject(error) of the promise built at spotify.ts 58 and
\* youtube.ts 57: the first call settles it, later calls do nothing.
Settle(promise, status, value) ==
    IF promise.status = "pending" THEN [status |-> status, value |-> value]
    ELSE promise

\* What the request handler does with a request: the HTTP status it answers,
\* and the call it makes on the promise ("none" when it makes none).
Handled(http, call, value) == [http |-> http, call |-> call, value |-> value]

\* Variant of SpotifyHandler: the state parameter is not compared.
SpotifyHandlerNoStateCheck(req, state) ==
    IF req.path # RedirectPath THEN Handled(404, "none", Null)
    ELSE IF req.error # Null THEN Handled(400, "rejected", "authorizationFailed")
    ELSE IF req.code = Null THEN Handled(400, "rejected", "invalid")
    ELSE Handled(200, "resolved", req.code)

\* spotify.ts 60-92
SpotifyHandler(req, state) ==
    IF req.path # RedirectPath THEN Handled(404, "none", Null)
    ELSE IF req.error # Null THEN Handled(400, "rejected", "authorizationFailed")
    ELSE IF req.code = Null \/ req.state # state
         THEN Handled(400, "rejected", "invalid")
    ELSE Handled(200, "resolved", req.code)

\* youtube.ts 59-89
GoogleHandler(req) ==
    IF req.path # RedirectPath THEN Handled(404, "none", Null)
    ELSE IF req.error # Null THEN Handled(400, "rejected", "authorizationFailed")
    ELSE IF req.code = Null THEN Handled(400, "rejected", "missingCode")
    ELSE Handled(200, "resolved", req.code)

WaitFrame ==
    UNCHANGED <<cliVars, tpc, callVars, created, createdFor, listingVars,
                selectVars, wservice, wstate, authVars, configureVars>>

\* A request reaches the callback server: on a new connection while the
\* server listens, or on a connection kept open from before it closed.
CallbackRequest ==
    /\ wservice # "none"
    /\ wrequests < MaxRequests
    /\ wlistening \/ wrequests > 0
    /\ \E req \in Requests :
          LET h == IF wservice = "spotify" THEN SpotifyHandler(req, wstate)
                   ELSE GoogleHandler(req)
          IN  /\ wresponse' = h.http
              /\ wpromise' = IF h.call = "none" THEN wpromise
                             ELSE Settle(wpromise, h.call, h.value)
              /\ wlistening' = IF h.call = "none" THEN wlistening ELSE FALSE
              /\ wlast' = Event("request", req)
    /\ wrequests' = wrequests + 1
    /\ UNCHANGED <<wtimer, wfailed, wcaller, wexchanged>>
    /\ WaitFrame

\* spotify.ts 99-102, youtube.ts 95-98: the server emits "error".
ServerError ==
    /\ wservice # "none" /\ ~wfailed
    /\ wfailed' = TRUE
    /\ wpromise' = Settle(wpromise, "rejected", "serverError")
    /\ wlistening' = FALSE
    /\ wlast' = Event("error", NoRequestYet)
    /\ UNCHANGED <<wtimer, wresponse, wrequests, wcaller, wexchanged>>
    /\ WaitFrame

\* spotify.ts 104-107, youtube.ts 100-103: the timer, which nothing clears.
Timeout ==
    /\ wtimer = "pending"
    /\ wtimer' = "fired"
    /\ wpromise' = Settle(wpromise, "rejected", "timedOut")
    /\ wlistening' = FALSE
    /\ wlast' = Event("timeout", NoRequestYet)
    /\ UNCHANGED <<wfailed, wresponse, wrequests, wcaller, wexchanged>>
    /\ WaitFrame

\* spotify.ts 238-239, youtube.ts 144-146: the caller resumes once the promise
\* is settled: with a code it requests the token exchange, with an error it
\* throws.
Resume ==
    /\ wcaller = "awaiting"
    /\ wpromise.status # "pending"
    /\ IF wpromise.status = "resolved"
       THEN wcaller' = "exchange" /\ wexchanged' = wpromise.value
       ELSE wcaller' = "threw" /\ wexchanged' = wexchanged
    /\ UNCHANGED <<wpromise, wlistening, wtimer, wfailed, wresponse,
                   wrequests, wlast>>
    /\ WaitFrame

NextWait == CallbackRequest \/ ServerError \/ Timeout \/ Resume

SpecWait == InitWait /\ [][NextWait]_vars

\* The timer fires when its 60 s are over.
SpecWaitFair == SpecWait /\ WF_vars(Timeout)

\* --------------------------------------- the token functions on their own
\* spotify.ts 111-244, youtube.ts 107-159, config.ts and cli.ts 136-182: the
\* transfer command up to the end of its authentication, and reset-auth,
\* run one after the other against the config store.

\* What the token endpoint can answer to a refresh or an exchange request:
\* an error, or a token (expires_in is 1 tick; a refresh answer need not
\* carry a refresh token).
TokenFailure == [ok |-> FALSE, access_token |-> Null, refresh_token |-> Null,
                 expires_in |-> 0]
TokenReplies ==
    {TokenFailure} \cup
    [ok : {TRUE}, access_token : {"a2"}, refresh_token : {Null, "r2"},
     expires_in : {1}]

\* How the authorization wait can end (C25): with a code or with an error.
WaitOutcomes ==
    {[status |-> "resolved", value |-> "c1"],
     [status |-> "rejected", value |-> "timedOut"]}

\* What the services do during one call: the answer to a refresh request,
\* the end of the authorization wait, the answer to the token exchange.
Environments == [refresh : TokenReplies, wait : WaitOutcomes, exchange : TokenReplies]

\* Tokens a previous run can have left in the store.
StoredSpotifyTokens ==
    {NoToken} \cup
    [access_token : {"a1"}, refresh_token : {Null, "r1"}, expires_at : {0, 2}]
StoredGoogleTokens ==
    {NoCredentials} \cup
    [access_token : {"a1"}, refresh_token : {Null, "r1"}, expiry_date : {0, 2}]

\* Variant of saveSpotifyToken: nothing is written.
saveSpotifyTokenWritesNothing(st, token) == st

\* config.ts: saveSpotifyToken, deleteSpotifyToken, saveGoogleToken.
saveSpotifyToken(st, token) == [st EXCEPT !.spotifyToken = token]
deleteSpotifyToken(st) == [st EXCEPT !.spotifyToken = NoToken]
saveGoogleToken(st, token) == [st EXCEPT !.googleToken = token]

\* Variant of deleteGoogleToken: the token stays in the store.
deleteGoogleTokenKeeps(st) == st

\* config.ts: deleteGoogleToken.
deleteGoogleToken(st) == [st EXCEPT !.googleToken = NoCredentials]

\* Variant of clearTokens: only the Spotify token is deleted.
clearTokensSpotifyOnly(st) == [st EXCEPT !.spotifyToken = NoToken]

\* config.ts: clearTokens.
clearTokens(st) ==
    [st EXCEPT !.spotifyToken = NoToken, !.googleToken = NoCredentials]

\* Variant of refreshSpotifyToken: the answer's refresh token is kept.
refreshSpotifyTokenTakesNew(st, refreshToken, reply, t) ==
    IF st.spotifyClientId = Null \/ st.spotifyClientSecret = Null THEN Throws
    ELSE IF ~reply.ok THEN Throws
    ELSE Returns([access_token |-> reply.access_token,
                  refresh_token |-> reply.refresh_token,
                  expires_at |-> t + reply.expires_in])

\* spotify.ts 150-189: the refreshed token carries the refresh token it was
\* asked with and expires_at = Date.now() + expires_in.
refreshSpotifyToken(st, refreshToken, reply, t) ==
    IF st.spotifyClientId = Null \/ st.spotifyClientSecret = Null THEN Throws
    ELSE IF ~reply.ok THEN Throws
    ELSE Returns([access_token |-> reply.access_token,
                  refresh_token |-> refreshToken,
                  expires_at |-> t + reply.expires_in])

\* spotify.ts 111-148
exchangeSpotifyCodeForToken(st, code, reply, t) ==
    IF st.spotifyClientId = Null \/ st.spotifyClientSecret = Null THEN Throws
    ELSE IF ~reply.ok THEN Throws
    ELSE Returns([access_token |-> reply.access_token,
                  refresh_token |-> reply.refresh_token,
                  expires_at |-> t + reply.expires_in])

\* What a token function hands back: whether it threw, the token it
\* returned, the store as it left it, and what it did on the way.
Outcome(threw, token, st, reused, refreshes, flows, exchanges) ==
    [threw |-> threw, token |-> token, store |-> st,
     did |-> [called |-> TRUE, threw |-> threw, reused |-> reused,
              refreshes |-> refreshes, flows |-> flows, exchanges |-> exchanges]]

\* spotify.ts 223-243: no usable token; the credentials check, the
\* authorization wait, the exchange, the save.
SpotifyFlow(st, t, env, refreshes) ==
    IF st.spotifyClientId = Null \/ st.spotifyClientSecret = Null
    THEN Outcome(TRUE, NoToken, st, FALSE, refreshes, 0, 0)
    ELSE IF env.wait.status # "resolved"
    THEN Outcome(TRUE, NoToken, st, FALSE, refreshes, 1, 0)
    ELSE LET exchanged == exchangeSpotifyCodeForToken(st, env.wait.value,
                                                      env.exchange, t)
         IN  IF exchanged.threw
             THEN Outcome(TRUE, NoToken, st, FALSE, refreshes, 1, 1)
             ELSE Outcome(FALSE, exchanged.value,
                          saveSpotifyToken(st, exchanged.value),
                          FALSE, refreshes, 1, 1)

\* spotify.ts 191-244
getSpotifyToken(st, t, env) ==
    LET token == st.spotifyToken IN
    IF token # NoToken
    THEN IF token.expires_at # 0 /\ t >= token.expires_at
         THEN IF token.refresh_token # Null
              THEN LET refreshed == refreshSpotifyToken(st, token.refresh_token,
                                                        env.refresh, t)
                   IN  IF refreshed.threw
                       THEN SpotifyFlow(deleteSpotifyToken(st), t, env, 1)
                       ELSE Outcome(FALSE, refreshed.value,
                                    saveSpotifyToken(st, refreshed.value),
                                    FALSE, 1, 0, 0)
              ELSE SpotifyFlow(deleteSpotifyToken(st), t, env, 0)
         ELSE Outcome(FALSE, token, st, TRUE, 0, 0, 0)
    ELSE SpotifyFlow(st, t, env, 0)

\* oAuth2Client.refreshAccessToken() and oAuth2Client.getToken(code) of
\* google-auth-library: the credentials the token endpoint answers with.
GoogleCredentials(reply, t) ==
    [access_token |-> reply.access_token, refresh_token |-> reply.refresh_token,
     expiry_date |-> t + reply.expires_in]

\* youtube.ts 107-159; the token of the outcome is what the returned client
\* holds as credentials.
getYouTubeToken(st, t, env) ==
    LET token == st.googleToken IN
    IF st.googleClientId = Null \/ st.googleClientSecret = Null
    THEN Outcome(TRUE, NoCredentials, st, FALSE, 0, 0, 0)
    ELSE IF token # NoCredentials
    THEN IF token.expiry_date # 0 /\ t >= token.expiry_date
         THEN IF env.refresh.ok
              THEN Outcome(FALSE, GoogleCredentials(env.refresh, t),
                           saveGoogleToken(st, GoogleCredentials(env.refresh, t)),
                           FALSE, 1, 0, 0)
              ELSE Outcome(TRUE, NoCredentials, deleteGoogleToken(st),
                           FALSE, 1, 0, 0)
         ELSE Outcome(FALSE, token, st, TRUE, 0, 0, 0)
    ELSE IF env.wait.status # "resolved"
    THEN Outcome(TRUE, NoCredentials, st, FALSE, 0, 1, 0)
    ELSE IF ~env.exchange.ok
    THEN Outcome(TRUE, NoCredentials, st, FALSE, 0, 1, 1)
    ELSE Outcome(FALSE, GoogleCredentials(env.exchange, t),
                 saveGoogleToken(st, GoogleCredentials(env.exchange, t)),
                 FALSE, 0, 1, 1)

\* The store as configure (all four ids and secrets, or nothing) and earlier
\* runs can have left it; tokens are there only with credentials.
Stores ==
    {st \in [spotifyClientId : {Null, "id"}, spotifyClientSecret : {Null, "secret"},
             googleClientId : {Null, "id"}, googleClientSecret : {Null, "secret"},
             callbackPort : {8888, 9000},
             spotifyToken : StoredSpotifyTokens,
             googleToken : StoredGoogleTokens] :
        \/ /\ st.spotifyClientId # Null /\ st.spotifyClientSecret # Null
           /\ st.googleClientId # Null /\ st.googleClientSecret # Null
        \/ /\ st.spotifyClientId = Null /\ st.spotifyClientSecret = Null
           /\ st.googleClientId = Null /\ st.googleClientSecret = Null
           /\ st.spotifyToken = NoToken /\ st.googleToken = NoCredentials}

InitAuth ==
    /\ pc = "exited"
    /\ exitCode = "none"
    /\ config = [spotifyClientId |-> "id", googleClientId |-> "id"]
    /\ allSpotifyPlaylists = <<>>
    /\ playlistsToTransfer = <<>>
    /\ k = 0
    /\ finished = 0
    /\ completeSignals = 0
    /\ tpc = "idle"
    /\ created = 0
    /\ createdFor = <<>>
    /\ FreshCall
    /\ lpc = "unused"
    /\ lcall = "none"
    /\ lserver = [pages |-> <<>>, failAt |-> 0]
    /\ lresult = NotReturned
    /\ spc = "unused"
    /\ slisting = <<>>
    /\ soptions = [all |-> FALSE, playlist |-> <<>>]
    /\ sanswers = <<>>
    /\ srejected = 0
    /\ sresult = NotSelected
    /\ wservice = "none"
    /\ wstate = Null
    /\ wpromise = Pending
    /\ wlistening = FALSE
    /\ wtimer = "none"
    /\ wfailed = FALSE
    /\ wresponse = 0
    /\ wrequests = 0
    /\ wlast = NoEvent
    /\ wcaller = "none"
    /\ wexchanged = Null
    /\ store \in Stores
    /\ now = 1
    /\ arun = NoRun
    /\ cpc = "unused"
    /\ answers = NoAnswers

AuthFrame ==
    UNCHANGED <<cliVars, tpc, callVars, created, createdFor, listingVars,
                selectVars, waitVars, configureVars>>

\* cli.ts 129-134: reset-auth.
ResetAuth ==
    /\ store' = clearTokens(store)
    /\ arun' = [NoRun EXCEPT !.op = "reset", !.after = arun.op]
    /\ now' = now
    /\ AuthFrame

\* cli.ts 151-182: the transfer command checks the two client ids, calls
\* getSpotifyToken and then getYouTubeToken; a throw of either ends the
\* process with code 1, and after both the command goes on to the listing.
TransferAuth ==
    /\ \E envS \in Environments, envG \in Environments :
          IF store.spotifyClientId = Null \/ store.googleClientId = Null
          THEN /\ arun' = [NoRun EXCEPT !.op = "transfer", !.after = arun.op,
                                        !.exit = "nonzero"]
               /\ store' = store
          ELSE LET s == getSpotifyToken(store, now, envS)
                   g == getYouTubeToken(s.store, now, envG)
               IN  IF s.threw
                   THEN /\ arun' = [NoRun EXCEPT !.op = "transfer",
                                                 !.after = arun.op,
                                                 !.exit = "nonzero",
                                                 !.spotify = s.did]
                        /\ store' = s.store
                   ELSE /\ arun' = [op |-> "transfer", after |-> arun.op,
                                    exit |-> IF g.threw THEN "nonzero" ELSE "listing",
                                    spotify |-> s.did, spotifyToken |-> s.token,
                                    google |-> g.did, googleToken |-> g.token]
                        /\ store' = g.store
    /\ now' = now
    /\ AuthFrame

\* Time passes between and during commands.
Tick ==
    /\ now < MaxTime
    /\ now' = now + 1
    /\ UNCHANGED <<store, arun>>
    /\ AuthFrame

NextAuth == ResetAuth \/ TransferAuth \/ Tick

SpecAuth == InitAuth /\ [][NextAuth]_vars

\* --------------------------------------------------------------- configure
\* cli.ts 41-126: the configure command against the config store.  The store
\* carries here the two redirect URIs as well, with their schema defaults.
SpotifyRedirectDefault == "http://localhost:8888/spotify-callback"
GoogleRedirectDefault == "http://localhost:8888/youtube-callback"

\* What the user types at the seven prompts; "" is the Enter key alone.
Typed ==
    [spotifyClientId : {"", "sid2"}, spotifyClientSecret : {"", "ssecret2"},
     spotifyRedirectUri : {"", "suri2"},
     googleClientId : {"", "gid2"}, googleClientSecret : {"", "gsecret2"},
     googleRedirectUri : {"", "guri2"},
     callbackPort : {"", "9000", "abc", "0"}]

\* An input prompt returns the typed text, the default when nothing was
\* typed, and "" when there is no default either.
Answer(typed, default) ==
    IF typed # "" THEN typed
    ELSE IF default = Null THEN "" ELSE default

\* parseInt(text, 10): no leading digits gives NaN.
parseInt(text) ==
    CASE text = "9000" -> [nan |-> FALSE, value |-> 9000]
      [] text = "0" -> [nan |-> FALSE, value |-> 0]
      [] OTHER -> [nan |-> TRUE, value |-> 0]

\* filter: (input) => parseInt(input, 10) || 8888; NaN and 0 are falsy.
filter(n) == IF n.nan \/ n.value = 0 THEN 8888 ELSE n.value

\* inquirer.prompt([...]) of configure: each default is the stored value.
prompt(st, typed) ==
    [spotifyClientId |-> Answer(typed.spotifyClientId, st.spotifyClientId),
     spotifyClientSecret |->
         Answer(typed.spotifyClientSecret, st.spotifyClientSecret),
     spotifyRedirectUri |->
         Answer(typed.spotifyRedirectUri, st.spotifyRedirectUri),
     googleClientId |-> Answer(typed.googleClientId, st.googleClientId),
     googleClientSecret |->
         Answer(typed.googleClientSecret, st.googleClientSecret),
     googleRedirectUri |->
         Answer(typed.googleRedirectUri, st.googleRedirectUri),
     callbackPort |->
         filter(IF typed.callbackPort = ""
                THEN [nan |-> FALSE, value |-> st.callbackPort]
                ELSE parseInt(typed.callbackPort))]

\* Variant of MissingRequired: only the two client ids are looked at.
MissingRequiredIdsOnly(a) == a.spotifyClientId = "" \/ a.googleClientId = ""

\* cli.ts 100-105: one of the four ids and secrets is falsy.
MissingRequired(a) ==
    \/ a.spotifyClientId = ""
    \/ a.spotifyClientSecret = ""
    \/ a.googleClientId = ""
    \/ a.googleClientSecret = ""

\* cli.ts 112-118: the seven config.set calls.
SetAll(st, a) ==
    [st EXCEPT !.spotifyClientId = a.spotifyClientId,
               !.spotifyClientSecret = a.spotifyClientSecret,
               !.spotifyRedirectUri = a.spotifyRedirectUri,
               !.googleClientId = a.googleClientId,
               !.googleClientSecret = a.googleClientSecret,
               !.googleRedirectUri = a.googleRedirectUri,
               !.callbackPort = a.callbackPort]

\* The store before a configure run: nothing set but the schema defaults,
\* or what an earlier configure and earlier transfer runs left.
ConfigureStores ==
    {st \in [spotifyClientId : {Null, "id"}, spotifyClientSecret : {Null, "secret"},
             spotifyRedirectUri : {SpotifyRedirectDefault},
             googleClientId : {Null, "id"}, googleClientSecret : {Null, "secret"},
             googleRedirectUri : {GoogleRedirectDefault},
             callbackPort : {8888, 9000},
             spotifyToken : {NoToken, [access_token |-> "a1",
                                       refresh_token |-> "r1", expires_at |-> 2]},
             googleToken : {NoCredentials}] :
        \/ /\ st.spotifyClientId # Null /\ st.spotifyClientSecret # Null
           /\ st.googleClientId # Null /\ st.googleClientSecret # Null
        \/ /\ st.spotifyClientId = Null /\ st.spotifyClientSecret = Null
           /\ st.googleClientId = Null /\ st.googleClientSecret = Null
           /\ st.spotifyToken = NoToken}

InitConfigure ==
    /\ pc = "exited"
    /\ exitCode = "none"
    /\ config = [spotifyClientId |-> "id", googleClientId |-> "id"]
    /\ allSpotifyPlaylists = <<>>
    /\ playlistsToTransfer = <<>>
    /\ k = 0
    /\ finished = 0
    /\ completeSignals = 0
    /\ tpc = "idle"
    /\ created = 0
    /\ createdFor = <<>>
    /\ FreshCall
    /\ lpc = "unused"
    /\ lcall = "none"
    /\ lserver = [pages |-> <<>>, failAt |-> 0]
    /\ lresult = NotReturned
    /\ spc = "unused"
    /\ slisting = <<>>
    /\ soptions = [all |-> FALSE, playlist |-> <<>>]
    /\ sanswers = <<>>
    /\ srejected = 0
    /\ sresult = NotSelected
    /\ wservice = "none"
    /\ wstate = Null
    /\ wpromise = Pending
    /\ wlistening = FALSE
    /\ wtimer = "none"
    /\ wfailed = FALSE
    /\ wresponse = 0
    /\ wrequests = 0
    /\ wlast = NoEvent
    /\ wcaller = "none"
    /\ wexchanged = Null
    /\ store \in ConfigureStores
    /\ now = 1
    /\ arun = NoRun
    /\ cpc = "idle"
    /\ answers = NoAnswers

ConfigureFrame ==
    UNCHANGED <<cliVars, tpc, callVars, created, createdFor, listingVars,
                selectVars, waitVars, now, arun>>

\* cli.ts 55-98: the command is started and the prompt is answered.
ConfigurePrompt ==
    /\ cpc = "idle"
    /\ \E typed \in Typed : answers' = prompt(store, typed)
    /\ cpc' = "answered"
    /\ store' = store
    /\ ConfigureFrame

\* cli.ts 100-125: the required answers are checked and the seven settings
\* are written; with one missing the action returns before the first write.
ConfigureSave ==
    /\ cpc = "answered"
    /\ store' = IF MissingRequired(answers) THEN store ELSE SetAll(store, answers)
    /\ cpc' = "idle"
    /\ answers' = answers
    /\ ConfigureFrame

NextConfigure == ConfigurePrompt \/ ConfigureSave

SpecConfigure == InitConfigure /\ [][NextConfigure]_vars

\* ------------------------------------------------------------------ claims
LoopStates == {"pause", "search", "searched", "add", "added"}
Counted == addedCount + notFoundCount + failedCount

\* C1: the listing a transfer works on holds tracks only; while the track loop runs, addedCount + notFoundCount + failedCount
\* is the number of tracks processed so far; at the summary it is the number
\* of tracks the listing returned; every step of the loop leaves each counter
\* alone or adds one to exactly one of them, together with the move to the
\* next track.
C1_OutcomeAccounting ==
    /\ [](\A n \in 1..Len(spotifyTracks) : spotifyTracks[n] \in Tracks)
    /\ [](tpc \in LoopStates => Counted = i - 1 /\ i <= Len(spotifyTracks))
    /\ [](tpc \in {"report", "done"} => Counted = Len(spotifyTracks))
    /\ [][(tpc \in LoopStates =>
            /\ addedCount' >= addedCount
            /\ notFoundCount' >= notFoundCount
            /\ failedCount' >= failedCount
            /\ Counted' - Counted \in {0, 1}
            /\ Counted' - Counted = i' - i)]_vars

C1_Witness ==
    tpc = "done" /\ addedCount = 1 /\ failedCount = 1 /\ Len(spotifyTracks) = 2

\* C2: once the destination playlist exists, no reply to a search or an add
\* request ends the transfer: every step of the track loop stays in the loop
\* or reaches the summary, the loop can always take its next step, and at the
\* summary one search request has gone out for every track of the listing.
C2_TrackFailureNeverAborts ==
    /\ [][(tpc \in LoopStates =>
            pc' = "loop" /\ tpc' \in LoopStates \cup {"report"})]_vars
    /\ [](tpc \in LoopStates \cup {"report"} => ENABLED Next)
    /\ [](tpc \in {"report", "done"} => searches = Len(spotifyTracks))
    /\ [](tpc = "done" => summary # {})

C2_Witness ==
    tpc = "done" /\ notFoundCount = 1 /\ failedCount = 1 /\ summary # {}

\* C3 (as claimed): a failed track listing skips only its playlist, so every
\* run that entered the transfer loop ends with all selected playlists
\* transferred and the final signal printed.
C3_FetchFailureSkipsPlaylist ==
    pc = "exited" /\ k > 0 =>
        /\ finished = Len(playlistsToTransfer)
        /\ completeSignals = 1

\* C4: a playlist creation that returns null ends the call in Failed with no
\* search request, no add request and no summary, and the command's loop
\* goes on: to the next selected playlist, or to the final signal and exit
\* code zero when there is none.
C4_CreateFailure ==
    /\ [](tpc = "failed" =>
            /\ youtubePlaylistId = NoPlaylist
            /\ searches = 0 /\ adds = 0 /\ summary = {}
            /\ (pc = "loop" => ENABLED Next))
    /\ [][(tpc = "create" /\ youtubePlaylistId' = NoPlaylist => tpc' = "failed")]_vars
    /\ [][(tpc = "failed" /\ pc = "loop" =>
            \/ k < Len(playlistsToTransfer) /\ k' = k + 1 /\ tpc' = "fetch"
            \/ /\ k = Len(playlistsToTransfer)
               /\ pc' = "exited" /\ exitCode' = "zero" /\ completeSignals' = 1)]_vars

C4_Witness ==
    tpc = "failed" /\ k = 1 /\ Len(playlistsToTransfer) = 2

C6_DuplicateIsSuccess ==
    [][(tpc = "added" /\ addReply \in DuplicateReplies \cup {OkReply(<<>>)} =>
            /\ addedCount' = addedCount + 1
            /\ failedCount' = failedCount
            /\ notFoundCount' = notFoundCount)]_vars

\* The second add of the same video to the same playlist is answered
\* "duplicate", the first having been counted as added.
C6_Witness ==
    /\ tpc = "added" /\ addReply \in DuplicateReplies
    /\ adds = 2 /\ Cardinality(sent) = 1 /\ addedCount = 1

\* C7: every add error other than a duplicate report is returned, not
\* thrown: the track counts once as failed and the loop goes on to the next
\* track or to the summary.
C7_AddErrorIsFailure ==
    [][(tpc = "added" /\ addReply \notin DuplicateReplies \cup {OkReply(<<>>)} =>
            /\ failedCount' = failedCount + 1
            /\ addedCount' = addedCount
            /\ notFoundCount' = notFoundCount
            /\ pc' = "loop"
            /\ i' = i + 1
            /\ tpc' = IF i < Len(spotifyTracks) THEN "pause" ELSE "report")]_vars

C7_Witness ==
    /\ tpc = "added" /\ addReply = HttpError("forbidden", TRUE)
    /\ i < Len(spotifyTracks)

\* C8: an empty search result and a failed search request have the same
\* effect: the track counts as not found, never as failed, no add request
\* goes out for it, and the call goes on to the next track or the summary.
C8_SearchErrorIsNotFound ==
    [][(tpc = "searched" /\ (searchReply.kind # "ok" \/ searchReply.items = <<>>) =>
            /\ notFoundCount' = notFoundCount + 1
            /\ failedCount' = failedCount
            /\ addedCount' = addedCount
            /\ adds' = adds /\ sent' = sent
            /\ youtubeVideo' = Null
            /\ pc' = "loop"
            /\ i' = i + 1
            /\ tpc' = IF i < Len(spotifyTracks) THEN "pause" ELSE "report")]_vars

C8_Witness ==
    /\ tpc = "searched" /\ searchReply.kind = "tokenError"
    /\ notFoundCount = 1 /\ adds = 0

\* C9 (as claimed): the process exits non-zero only before the first
\* playlist transfer starts.
C9_NonZeroOnlyBeforeLoop ==
    exitCode = "nonzero" => k = 0

\* C10: for a listing whose page requests all succeed, each helper requests
\* pages 1..N once each in cursor order, ending with the page that has no
\* next cursor, and returns the pages' entries concatenated in order (for
\* the track listing: the entries with a track).
C10_PaginationComplete ==
    lpc = "returned" /\ lserver.failAt = 0 =>
        /\ lresult.ok
        /\ lresult.requested = [j \in 1..Len(lserver.pages) |-> j]
        /\ lresult.items =
              IF lcall = "playlists" THEN Flatten(lserver.pages)
              ELSE SelectSeq(Flatten(lserver.pages), LAMBDA e : e # Null)

C10_Witness ==
    /\ lpc = "returned" /\ lserver.failAt = 0 /\ lresult.ok
    /\ Len(lserver.pages) = 2
    /\ Len(lserver.pages[1]) = 1 /\ Len(lserver.pages[2]) = 1
    /\ Len(lresult.items) = 2

\* Number of positions of seq that hold e.
Occurrences(seq, e) == Cardinality({n \in 1..Len(seq) : seq[n] = e})

NoDuplicates(seq) == \A m, n \in 1..Len(seq) : seq[m] = seq[n] => m = n

\* C11 (as stated): the sequence a listing helper returns holds no entry
\* twice, whatever the pages the server returned.
C11_ResultDeduplicated ==
    lpc = "returned" /\ lresult.ok => NoDuplicates(lresult.items)

\* C11 (amended): a listing helper removes nothing and adds nothing: every
\* playlist, and every track, is in the returned sequence exactly as many
\* times as the server's pages hold it, so an entry the server returns on two
\* pages is in the result twice.
C11_ResultKeepsMultiplicity ==
    lpc = "returned" /\ lresult.ok =>
        \A e \in PlaylistIds \cup Tracks :
            Occurrences(lresult.items, e) = Occurrences(Flatten(lserver.pages), e)

C11_Witness ==
    /\ lpc = "returned" /\ lresult.ok /\ lcall = "playlists"
    /\ Len(lserver.pages) = 2
    /\ lserver.pages[1] = <<"p1">> /\ lserver.pages[2] = <<"p1">>
    /\ lresult.items = <<"p1", "p1">>

\* C12: when a page request of a listing helper fails, the call throws: it
\* hands no entry to its caller, not even those of the pages fetched before
\* the failure, and it requests no page after the failing one.
C12_PageErrorFailsCall ==
    lpc = "returned" /\ lserver.failAt # 0 =>
        /\ ~lresult.ok
        /\ lresult.items = <<>>
        /\ lresult.requested = [j \in 1..lserver.failAt |-> j]

C12_Witness ==
    /\ lpc = "returned" /\ lserver.failAt = 2
    /\ Len(lserver.pages[1]) > 0
    /\ ~lresult.ok /\ lresult.items = <<>>


\* The entries of a listing that carry a track.
WithTrack(entries) == SelectSeq(entries, LAMBDA e : e \in Tracks)

\* C13: the tracks a transferPlaylist call works on are exactly the entries
\* of the server's listing that carry a track, in the server's order; the
\* entries without one are no part of the total the progress lines print and
\* no counter counts them: the counters never exceed, and at the summary
\* equal, the number of entries with a track.
C13_NullEntriesDropped ==
    /\ spotifyTracks = WithTrack(listed)
    /\ \A n \in 1..Len(progress) : progress[n].total = Len(WithTrack(listed))
    /\ Counted <= Len(WithTrack(listed))
    /\ tpc = "done" => Counted = Len(WithTrack(listed))

C13_Witness ==
    /\ tpc = "done"
    /\ listed = <<"t1", Null>>
    /\ spotifyTracks = <<"t1">>
    /\ progress = <<[position |-> 1, total |-> 1, track |-> "t1"]>>
    /\ Counted = 1

\* The elements of seq at the positions in P, in the order of seq.
Pick(seq, P) ==
    LET F[n \in 0..Len(seq)] ==
            IF n = 0 THEN <<>>
            ELSE IF n \in P THEN Append(F[n - 1], seq[n]) ELSE F[n - 1]
    IN  F[Len(seq)]

IsSubSequence(sub, seq) == \E P \in SUBSET (1..Len(seq)) : sub = Pick(seq, P)

Range(seq) == {seq[n] : n \in 1..Len(seq)}

ByIds == ~soptions.all /\ Len(soptions.playlist) > 0

\* The ids the selection mode asks for.
Wanted ==
    IF soptions.all THEN Range(slisting)
    ELSE IF ByIds THEN Range(soptions.playlist)
    ELSE Range(sanswers)

\* C14 (as stated): in every mode the selection is a sub-sequence of the
\* source listing in listing order and holds no playlist twice.
C14_SelectionInListingOrderOnce ==
    spc = "returned" =>
        /\ IsSubSequence(sresult.selection, slisting)
        /\ NoDuplicates(sresult.selection)

\* C14 (amended): in every mode the selection is the source listing cut down
\* to the entries whose id is asked for, in listing order: it depends on the
\* set of ids asked for only, not on their order or on how often one is
\* given, and it holds a playlist as often as the listing does, so only
\* once when the listing holds no playlist twice.
C14_SelectionIsListingFiltered ==
    spc = "returned" =>
        /\ sresult.selection =
              Pick(slisting, {n \in 1..Len(slisting) : slisting[n] \in Wanted})
        /\ IsSubSequence(sresult.selection, slisting)
        /\ NoDuplicates(slisting) => NoDuplicates(sresult.selection)

C14_Witness ==
    /\ spc = "returned"
    /\ slisting = <<"p1", "p2">>
    /\ soptions = [all |-> FALSE, playlist |-> <<"p2", "p2">>]
    /\ sresult.selection = <<"p2">>

\* C15: with --playlist, the ids the warning lists are exactly the requested
\* ids that the source listing does not hold; they do not end the run: the
\* listed playlists whose id was requested are all selected, and the transfer
\* loop follows whenever there is one.
C15_UnknownIdsReported ==
    spc = "returned" /\ ByIds =>
        /\ Range(sresult.notFoundIds) = Range(soptions.playlist) \ Range(slisting)
        /\ sresult.notFoundIds =
              SelectSeq(soptions.playlist, LAMBDA id : id \notin Range(slisting))
        /\ \A n \in 1..Len(slisting) :
              slisting[n] \in Range(soptions.playlist) =>
                  slisting[n] \in Range(sresult.selection)
        /\ sresult.next = IF Range(soptions.playlist) \cap Range(slisting) # {}
                          THEN "loop" ELSE "exited"

C15_Witness ==
    /\ spc = "returned"
    /\ slisting = <<"p1", "p2">>
    /\ soptions = [all |-> FALSE, playlist |-> <<UnknownId, "p2">>]
    /\ sresult = [selection |-> <<"p2">>, notFoundIds |-> <<UnknownId>>,
                  next |-> "loop"]

\* The track loop has a search or an add under way for track i.
Busy == tpc \in {"search", "searched", "add", "added"}

\* C16: the tracks are handled in listing order, one at a time: the n-th
\* progress line carries position n of the filtered total and the n-th
\* track, one line per track counted whatever its outcome; the track in hand
\* is the one after the last line, and a search request goes out only when
\* the lines of all earlier tracks are printed and no search or add of an
\* earlier track is open.
C16_TracksInOrder ==
    /\ [](/\ \A n \in 1..Len(progress) :
                progress[n] = [position |-> n, total |-> Len(spotifyTracks),
                               track |-> spotifyTracks[n]]
          /\ Len(progress) = Counted
          /\ tpc \in LoopStates => i = Len(progress) + 1
          /\ tpc \in LoopStates \cup {"report", "done"} =>
                searches = Len(progress) + (IF Busy THEN 1 ELSE 0)
          /\ tpc \in {"report", "done"} => Len(progress) = Len(spotifyTracks))
    /\ [][(searches' = searches + 1 =>
              /\ tpc = "pause" /\ searches' = i
              /\ Len(progress) = searches
              /\ searchReply = NoReply /\ addReply = NoReply
              /\ addRequest = NoRequest)]_vars

C16_Witness ==
    /\ tpc = "done"
    /\ Len(progress) = 2
    /\ progress[2] = [position |-> 2, total |-> 2, track |-> spotifyTracks[2]]
    /\ notFoundCount = 1 /\ failedCount = 1

\* C17: the playlists are transferred in selection order and never
\* overlap: the k-th call started works on the k-th selected playlist, at
\* most one call is unfinished, and a call starts (its track listing is
\* requested) only when every call before it has returned as done, skipped
\* or failed; requests go out for the unfinished call only.
C17_PlaylistsInOrder ==
    /\ [](/\ k <= Len(playlistsToTransfer)
          /\ k > 0 => spotifyPlaylist = playlistsToTransfer[k]
          /\ finished \in {k - 1, k} \cap Nat
          /\ tpc \in Terminal => finished = k
          /\ tpc \in LoopStates \cup {"fetch", "create", "report"} =>
                finished = k - 1)
    /\ [][(/\ k' # k =>
                /\ k' = k + 1 /\ finished = k
                /\ tpc \in Terminal \cup {"idle"}
                /\ fetches' = 1
           /\ (creates' > creates \/ searches' > searches \/ adds' > adds) =>
                k' = k /\ finished' = k - 1)]_vars

C17_Witness ==
    /\ playlistsToTransfer = <<"p1", "p2">>
    /\ k = 2 /\ finished = 1
    /\ spotifyPlaylist = "p2"
    /\ tpc = "search"

\* C18: the final "all transfers complete" line is printed at most once,
\* and only when every selected playlist has ended as done, skipped or
\* failed; a run that selected at least one playlist (so that authorization
\* and the playlist listing succeeded) does not end without it.
C18_FinalSignal ==
    /\ completeSignals <= 1
    /\ completeSignals = 1 =>
          finished = Len(playlistsToTransfer) /\ tpc \in Terminal
    /\ pc = "exited" /\ Len(playlistsToTransfer) > 0 => completeSignals = 1

\* C19: nothing is retried.  A call makes one track-listing call and at most
\* one createPlaylist request; track i gets one search request, sent after
\* its pause, and at most one add request, sent on the search's return; a
\* failed create ends the call, and a track whose search or add failed is
\* left for the next one.
C19_NoRetry ==
    /\ [](/\ fetches <= 1 /\ creates <= 1
          /\ searches <= Len(spotifyTracks)
          /\ adds <= searches)
    /\ [][(/\ tpc' = "fetch" /\ tpc # "fetch" => k' = k + 1
           /\ tpc' = "create" /\ tpc # "create" => tpc = "fetch" /\ creates' = 1
           /\ creates' > creates => tpc = "fetch"
           /\ tpc = "create" =>
                tpc' \in {"create", "failed", "pause", "report", "threw"}
           /\ tpc' = "search" /\ tpc # "search" =>
                tpc = "pause" /\ searches' = searches + 1 /\ searches' = i
           /\ searches' > searches => tpc = "pause"
           /\ tpc' = "add" /\ tpc # "add" =>
                tpc = "searched" /\ adds' = adds + 1
           /\ adds' > adds => tpc = "searched"
           /\ tpc \in {"searched", "added"} /\ tpc' \in {"pause", "report"} =>
                i' = i + 1)]_vars

C19_Witness ==
    /\ tpc = "pause" /\ i = 2
    /\ failedCount = 1 /\ addedCount = 0 /\ notFoundCount = 0
    /\ fetches = 1 /\ creates = 1 /\ searches = 1 /\ adds = 1

\* C20: when searchYouTubeVideo returns, the candidate is the first item of
\* the search response as it came, and the add request sent carries that
\* item's video id and the id of the playlist created; with an empty (or
\* failed) response there is no candidate, no add request is sent and the
\* track is counted as not found.
C20_FirstResultIsCandidate ==
    [][(tpc = "searched" /\ tpc' # "searched" =>
          IF searchReply.kind = "ok" /\ Len(searchReply.items) > 0
          THEN /\ youtubeVideo' = searchReply.items[1]
               /\ tpc' = "add"
               /\ adds' = adds + 1
               /\ addRequest' = [playlistId |-> youtubePlaylistId,
                                 videoId |-> searchReply.items[1]]
               /\ notFoundCount' = notFoundCount
          ELSE /\ youtubeVideo' = Null
               /\ tpc' \in {"pause", "report"}
               /\ adds' = adds
               /\ addRequest' = NoRequest
               /\ notFoundCount' = notFoundCount + 1)]_vars

C20_Witness ==
    /\ tpc = "add" /\ i = 2
    /\ notFoundCount = 1 /\ adds = 1
    /\ youtubeVideo = "v2"
    /\ addRequest = [playlistId |-> youtubePlaylistId, videoId |-> "v2"]
    /\ youtubePlaylistId # NoPlaylist

\* How far a transferPlaylist call has come: fetching, creating, in the
\* track loop, reporting, returned.
Rank(t) ==
    CASE t = "idle" -> 0
      [] t = "fetch" -> 1
      [] t = "create" -> 2
      [] t \in LoopStates -> 3
      [] t = "report" -> 4
      [] OTHER -> 5

\* C22: a transfer only moves forward through fetching, created,
\* transferring, reporting and done; it leaves early only as skipped (from
\* fetching, with no track) or as failed (from creating), and in no other
\* way; a transfer that was started has ended as done, skipped or failed
\* when the run is over.
C22_ForwardOnly ==
    /\ [](/\ tpc \in {"idle", "fetch", "create", "report"} \cup LoopStates \cup Terminal
          /\ pc = "exited" /\ k > 0 => tpc \in Terminal)
    /\ [][(k' = k =>
             /\ Rank(tpc') >= Rank(tpc)
             /\ tpc \in Terminal => tpc' = tpc
             /\ tpc' = "skipped" /\ tpc # "skipped" =>
                   tpc = "fetch" /\ Len(spotifyTracks') = 0
             /\ tpc' = "failed" /\ tpc # "failed" => tpc = "create"
             /\ tpc' = "done" /\ tpc # "done" => tpc = "report")]_vars

\* C23: every search request follows a pause of its own: a pause starts
\* when the loop reaches a track, after the playlist creation for the first
\* and after the previous track's outcome, whichever it was, for the others;
\* the search request is sent when that pause is over, so the pauses started
\* number one per track reached and the searches sent one per pause over.
C23_PauseBeforeSearch ==
    /\ [](/\ tpc \in LoopStates => pauses = Len(progress) + 1
          /\ tpc \in {"report", "done"} => pauses = Len(spotifyTracks)
          /\ searches = IF tpc = "pause" THEN pauses - 1 ELSE pauses)
    /\ [][(/\ searches' = searches + 1 =>
                tpc = "pause" /\ pauses = searches + 1 /\ pauses' = pauses
           /\ pauses' = pauses + 1 =>
                /\ tpc \in {"create", "searched", "added"}
                /\ tpc' = "pause"
                /\ searches' = searches /\ searches = pauses)]_vars

C23_Witness ==
    /\ tpc = "search" /\ i = 2
    /\ pauses = 2 /\ searches = 2
    /\ notFoundCount = 1

\* C30: an add request carries the id of the playlist this call created,
\* which was created for the source playlist being transferred, and the
\* video returned by the search for the track in hand; none is sent before
\* the creation succeeded.
C30_AddTargets ==
    /\ [](addRequest # NoRequest =>
             /\ tpc \in {"add", "added"}
             /\ creates = 1
             /\ addRequest.playlistId = youtubePlaylistId
             /\ addRequest.playlistId \in 1..created
             /\ createdFor[addRequest.playlistId] = k
             /\ spotifyPlaylist = playlistsToTransfer[k]
             /\ addRequest.videoId = youtubeVideo
             /\ searches = i)
    /\ [][(adds' = adds + 1 =>
             /\ tpc = "searched"
             /\ youtubePlaylistId # NoPlaylist
             /\ addRequest'.videoId = searchYouTubeVideo(searchReply).value
             /\ addRequest'.playlistId = youtubePlaylistId)]_vars

C30_Witness ==
    /\ k = 2 /\ tpc = "add"
    /\ createdFor = <<1, 2>>
    /\ addRequest.playlistId = 2
    /\ addRequest.videoId \in Videos

\* C24: at the prompt an empty submission is refused and the prompt stays
\* open; the answer the selection is made from holds at least one offered
\* id, so in interactive mode the selection is not empty and the transfer
\* loop follows; in no mode does the loop follow an empty selection.
C24_EmptySelectionRejected ==
    /\ [](/\ spc \in {"answered", "returned"} /\ Interactive(soptions) =>
                Len(sanswers) > 0
          /\ spc = "returned" /\ Interactive(soptions) =>
                Len(sresult.selection) > 0 /\ sresult.next = "loop"
          /\ sresult.next = "loop" => Len(sresult.selection) > 0)
    /\ [][(srejected' = srejected + 1 =>
              spc' = "call" /\ sanswers' = <<>> /\ sresult' = NotSelected)]_vars

C24_Witness ==
    /\ spc = "returned" /\ Interactive(soptions)
    /\ srejected = 1
    /\ sresult.selection = <<"p2">>
    /\ sresult.next = "loop"

\* The step is a request handled, the server's error, the timer firing.
RequestStep == wrequests' = wrequests + 1
ErrorStep == wfailed' /\ ~wfailed
TimeoutStep == wtimer = "pending" /\ wtimer' = "fired"

C26_StateChecked ==
    /\ [][(wservice = "spotify" /\ wpromise.status = "pending" /\ RequestStep =>
              LET req == wlast'.req IN
              /\ wpromise'.status = "resolved" =>
                    req.state = wstate /\ wpromise'.value = req.code
              /\ req.path = RedirectPath /\ req.state # wstate =>
                    wpromise'.status = "rejected")]_vars
    /\ [](wexchanged # Null =>
             wpromise.status = "resolved" /\ wexchanged = wpromise.value)
    /\ [](wservice = "spotify" /\ wpromise.status = "rejected" =>
             wexchanged = Null /\ wcaller # "exchange")

C26_Witness ==
    /\ wservice = "spotify" /\ wstate = "s1"
    /\ wlast = Event("request", [path |-> RedirectPath, error |-> Null,
                                 code |-> "c1", state |-> "s2"])
    /\ wpromise = [status |-> "rejected", value |-> "invalid"]
    /\ wcaller = "threw" /\ wexchanged = Null

\* The step is a transfer command run up to the end of its authentication.
TransferStep == now' = now /\ arun'.op = "transfer"

\* The stored token is there and Date.now() >= expires_at does not hold.
Expired(token) == token.expires_at # 0 /\ now >= token.expires_at
GoogleExpired(token) == token.expiry_date # 0 /\ now >= token.expiry_date

\* C21: reset-auth deletes the Spotify and the Google token and changes no
\* other key of the store; the transfer run that follows reuses no token:
\* its getSpotifyToken, and its getYouTubeToken when the run gets there, make
\* no refresh request and start the authorization flow.
C21_ResetAuth ==
    /\ [][(arun'.op = "reset" =>
              /\ store'.spotifyToken = NoToken
              /\ store'.googleToken = NoCredentials
              /\ \A key \in {"spotifyClientId", "spotifyClientSecret",
                             "googleClientId", "googleClientSecret",
                             "callbackPort"} : store'[key] = store[key])]_vars
    /\ [][(arun.op = "reset" /\ TransferStep =>
              /\ arun'.spotify.called =>
                    /\ ~arun'.spotify.reused
                    /\ arun'.spotify.refreshes = 0
                    /\ arun'.spotify.flows = 1
              /\ arun'.google.called =>
                    /\ ~arun'.google.reused
                    /\ arun'.google.refreshes = 0
                    /\ arun'.google.flows = 1
              /\ store'.spotifyClientId # Null =>
                    arun'.spotify.called
                        /\ (arun'.spotify.threw \/ arun'.google.called))]_vars

C21_Witness ==
    /\ arun.op = "transfer" /\ arun.after = "reset" /\ arun.exit = "listing"
    /\ arun.spotify.flows = 1 /\ arun.google.flows = 1
    /\ store.spotifyToken.access_token = "a2"
    /\ store.googleToken.access_token = "a2"
    /\ now = 1

\* C27: the token getSpotifyToken returns is the token the store holds when
\* it returns; a stored token that is not expired, or has no expiry time,
\* is returned as it is, with no refresh request, no authorization flow and
\* no write to the store.
C27_ReturnedTokenIsStored ==
    [][(TransferStep /\ arun'.spotify.called =>
          /\ ~arun'.spotify.threw =>
                /\ arun'.spotifyToken = store'.spotifyToken
                /\ arun'.spotifyToken # NoToken
          /\ store.spotifyToken # NoToken /\ ~Expired(store.spotifyToken) =>
                /\ ~arun'.spotify.threw /\ arun'.spotify.reused
                /\ arun'.spotify.refreshes = 0 /\ arun'.spotify.flows = 0
                /\ arun'.spotify.exchanges = 0
                /\ arun'.spotifyToken = store.spotifyToken
                /\ store'.spotifyToken = store.spotifyToken)]_vars

C27_Witness ==
    /\ arun.op = "transfer" /\ ~arun.spotify.threw
    /\ arun.spotify.refreshes = 1
    /\ arun.spotifyToken = store.spotifyToken
    /\ store.spotifyToken = [access_token |-> "a2", refresh_token |-> "r1",
                             expires_at |-> 3]

\* C28: with an expired stored token getSpotifyToken makes one refresh
\* request when the token carries a refresh token and none otherwise; a
\* refresh that succeeds stores the new token with the old refresh token
\* and no flow is started; otherwise the stored token is deleted and the
\* authorization flow runs in the same call, and when the flow fails the
\* store holds no Spotify token.
C28_ExpiredToken ==
    [][((/\ TransferStep /\ arun'.spotify.called
         /\ store.spotifyToken # NoToken /\ Expired(store.spotifyToken)) =>
          LET old == store.spotifyToken
              did == arun'.spotify
          IN  /\ did.refreshes = IF old.refresh_token # Null THEN 1 ELSE 0
              /\ ~did.reused
              /\ did.flows = 0 =>
                    /\ did.refreshes = 1 /\ ~did.threw
                    /\ store'.spotifyToken.refresh_token = old.refresh_token
                    /\ store'.spotifyToken.access_token = "a2"
                    /\ store'.spotifyToken.expires_at > now
              /\ did.flows # 0 =>
                    /\ did.flows = 1
                    /\ did.threw => store'.spotifyToken = NoToken
                    /\ ~did.threw =>
                          /\ did.exchanges = 1
                          /\ store'.spotifyToken # old
                          /\ store'.spotifyToken.access_token = "a2")]_vars

C28_Witness ==
    /\ arun.op = "transfer" /\ arun.spotify.threw
    /\ arun.spotify.refreshes = 1 /\ arun.spotify.flows = 1
    /\ store.spotifyToken = NoToken
    /\ now = 2

\* C29: when the stored Google token is expired and its refresh fails,
\* getYouTubeToken deletes the token and throws without starting the
\* authorization flow, and the run ends with code 1; the store then holds
\* no Google token, and a run that finds none and gets to getYouTubeToken
\* starts the authorization flow.
C29_GoogleRefreshFailure ==
    /\ [][((/\ TransferStep /\ arun'.google.called
            /\ store.googleToken # NoCredentials
            /\ GoogleExpired(store.googleToken)) =>
             /\ arun'.google.refreshes = 1 /\ arun'.google.flows = 0
             /\ arun'.google.threw =>
                   /\ store'.googleToken = NoCredentials
                   /\ arun'.exit = "nonzero"
             /\ ~arun'.google.threw =>
                   store'.googleToken = arun'.googleToken)]_vars
    /\ [][((TransferStep /\ arun'.google.called
               /\ store.googleToken = NoCredentials) =>
             /\ arun'.google.flows = 1 /\ arun'.google.refreshes = 0
             /\ ~arun'.google.reused)]_vars
    /\ [](arun.google.threw /\ arun.google.refreshes = 1 =>
             store.googleToken = NoCredentials /\ arun.exit = "nonzero")

C29_Witness ==
    /\ arun.op = "transfer" /\ arun.exit = "nonzero"
    /\ ~arun.spotify.threw
    /\ arun.google.threw /\ arun.google.refreshes = 1 /\ arun.google.flows = 0
    /\ store.googleToken = NoCredentials

SaveStep == cpc = "answered" /\ cpc' = "idle"
Settings ==
    {"spotifyClientId", "spotifyClientSecret", "spotifyRedirectUri",
     "googleClientId", "googleClientSecret", "googleRedirectUri",
     "callbackPort"}

\* C31: configure is all-or-nothing.  When one of the four answers Spotify
\* client id, Spotify client secret, Google client id, Google client secret
\* is empty, the store after the command is the store before it; otherwise
\* each of the seven settings holds its answer afterwards.
C31_ConfigureAllOrNothing ==
    [][(SaveStep =>
          IF \/ answers.spotifyClientId = "" \/ answers.spotifyClientSecret = ""
             \/ answers.googleClientId = "" \/ answers.googleClientSecret = ""
          THEN store' = store
          ELSE \A key \in Settings : store'[key] = answers[key])]_vars

\* A run has ended in which both client ids were typed and the Google
\* secret was left empty: the store holds no client id.
C31_Witness ==
    /\ cpc = "idle"
    /\ answers.spotifyClientId = "sid2"
    /\ answers.googleClientId = "gid2"
    /\ answers.googleClientSecret = ""
    /\ store.spotifyClientId = Null
    /\ store.googleClientId = Null

====
